---------------------------- MODULE Spec2Model ----------------------------
(***************************************************************************)
(* Monthly metrics analysis pipeline of the monitoring report server:      *)
(*   MetricsAnalyzer      (src/src/analyzers/metrics_analyzer.py)          *)
(*   ThresholdChecker     (src/src/analyzers/threshold_checker.py)         *)
(*   RecommendationEngine (src/src/analyzers/recommendation_engine.py)     *)
(*                                                                         *)
(* Numbers.  A Python float is a rational <<num, den>> in lowest terms     *)
(* with den > 0, and the float arithmetic of _calculate_stats rounds each  *)
(* result to the nearest float (ties to even) of MantissaBits significant  *)
(* bits: float64 has 53, more than the integers of the checker hold, so a  *)
(* model float with a full mantissa stands for a reading such as 0.1 or    *)
(* 12.3, whose binary expansion fills the mantissa of a float64.           *)
(* None is the one-element tuple <<"None">>.                               *)
(* Dictionaries are functions from key strings to values; a missing key is *)
(* a key outside DOMAIN, so d.get(k, default) is DictGet(d, k, default).   *)
(* Labels (metric names, titles) are sequences of words, so that the       *)
(* substring tests of the source ('CPU' in metric) are subsequence tests.  *)
(***************************************************************************)
EXTENDS Integers, Sequences, FiniteSets, TLC

VARIABLES
    pc,               \* the caller's position in the pipeline
    metrics_list,     \* the snapshots loaded for the month
    analysis,         \* analyze_monthly_metrics' result
    summary,          \* get_summary_statistics' result
    thresholds,       \* the threshold configuration
    log_analysis,     \* the log summary, or NoLogs
    violations,       \* check_all_thresholds' result
    candidates,       \* the list handed to _prioritize_recommendations
    recommendations,  \* the prioritized recommendations
    raised,           \* the exception that ended the run, or "none"
    values,           \* the series handed to _analyze_trend
    trend,            \* _analyze_trend's result
    report,           \* what generate_report has built and returned so far
    files,            \* the data directory: path of a metrics file -> content
    clock,            \* the date datetime.now() gives
    retention_months, \* DataStore.retention_months
    asked,            \* the <<year, month>> last given to load_month_metrics
    saves,            \* the save_metrics calls made so far, in order
    count,            \* the count last given to get_top_recommendations
    top_recommendations \* what get_top_recommendations last returned

\* the storage and its environment
store == <<files, clock, retention_months, asked, saves>>

\* the call of get_top_recommendations
top == <<count, top_recommendations>>

vars == <<pc, metrics_list, analysis, summary, thresholds, log_analysis,
          violations, candidates, recommendations, raised, values, trend,
          report, store, top>>

-----------------------------------------------------------------------------
(* Python values *)

None == <<"None">>

EmptyDict == [k \in {} |-> None]

DictGet(d, k, default) == IF k \in DOMAIN d THEN d[k] ELSE default

\* bool(x) of a number or None: None and 0 are falsy
Truthy(x) == x # None /\ x[1] # 0

\* bool(d) of a dictionary: the empty dictionary is falsy
NonEmpty(d) == DOMAIN d # {}

-----------------------------------------------------------------------------
(* Exact rational arithmetic standing for float arithmetic *)

Abs(i) == IF i < 0 THEN -i ELSE i

RECURSIVE Gcd(_, _)
Gcd(a, b) == IF b = 0 THEN a ELSE Gcd(b, a % b)

Rat(n, d) ==
    LET g == Gcd(Abs(n), Abs(d))
        s == IF d < 0 THEN -1 ELSE 1
    IN  <<(s * n) \div g, (s * d) \div g>>

Num(i) == <<i, 1>>

\* the sum over the least common denominator
RatAdd(a, b) ==
    LET g == Gcd(a[2], b[2])
    IN  Rat(a[1] * (b[2] \div g) + b[1] * (a[2] \div g), (a[2] \div g) * b[2])
RatSub(a, b) == RatAdd(a, <<-b[1], b[2]>>)
RatMul(a, b) == Rat(a[1] * b[1], a[2] * b[2])
RatDiv(a, b) == Rat(a[1] * b[2], a[2] * b[1])
RatAbs(a) == <<Abs(a[1]), a[2]>>
RatLt(a, b) == a[1] * b[2] < b[1] * a[2]
RatLe(a, b) == a[1] * b[2] <= b[1] * a[2]
RatGt(a, b) == RatLt(b, a)
RatGe(a, b) == RatLe(b, a)

RECURSIVE RatSum(_)
RatSum(s) == IF s = <<>> THEN Num(0) ELSE RatAdd(s[1], RatSum(Tail(s)))

RECURSIVE RatMin(_)
RatMin(s) ==
    IF Len(s) = 1 THEN s[1]
    ELSE LET m == RatMin(Tail(s)) IN IF RatLe(s[1], m) THEN s[1] ELSE m

RECURSIVE RatMax(_)
RatMax(s) ==
    IF Len(s) = 1 THEN s[1]
    ELSE LET m == RatMax(Tail(s)) IN IF RatGe(s[1], m) THEN s[1] ELSE m

\* insert x into the ascending sequence s
RECURSIVE RatInsert(_, _)
RatInsert(x, s) ==
    IF s = <<>> THEN <<x>>
    ELSE IF RatLe(x, s[1]) THEN <<x>> \o s
    ELSE <<s[1]>> \o RatInsert(x, Tail(s))

RECURSIVE RatSort(_)
RatSort(s) == IF s = <<>> THEN <<>> ELSE RatInsert(s[1], RatSort(Tail(s)))

-----------------------------------------------------------------------------
(* Float arithmetic: every operation rounds its exact result *)

\* the significant bits of a float of the model
MantissaBits == 12

\* n/d with d doubled until the quotient has at most MantissaBits bits:
\* <<d', up>> with n/d = (n/d') * up
RECURSIVE ShiftDown(_, _, _)
ShiftDown(n, d, up) ==
    IF n \div d >= 2^MantissaBits THEN ShiftDown(n, 2 * d, 2 * up)
    ELSE <<d, up>>

\* long division, one bit of the quotient at a time, until the mantissa m
\* is full or nothing is left: <<m', rest', down>> with
\* m + rest/d = (m' + rest'/d) / down
RECURSIVE Grow(_, _, _, _)
Grow(m, rest, d, down) ==
    IF m >= 2^(MantissaBits - 1) \/ rest = 0 THEN <<m, rest, down>>
    ELSE LET bit == IF 2 * rest >= d THEN 1 ELSE 0
         IN  Grow(2 * m + bit, 2 * rest - bit * d, d, 2 * down)

\* the quotient <<m, rest, down>> of n by d rounded to a mantissa, ties to
\* the even mantissa, and scaled back by up and down
RoundMantissa(sign, d, up, g) ==
    Rat(sign * up * (IF 2 * g[2] > d \/ (2 * g[2] = d /\ g[1] % 2 = 1)
                     THEN g[1] + 1 ELSE g[1]),
        g[3])

\* n/d2 * up, with n/d2 below 2^MantissaBits, rounded
RoundQuotient(sign, n, d2, up) ==
    RoundMantissa(sign, d2, up, Grow(n \div d2, n % d2, d2, 1))

\* sign * n/d rounded
RoundScaled(sign, n, scaled) == RoundQuotient(sign, n, scaled[1], scaled[2])

\* the float nearest to the rational r, ties to the even mantissa
Float(r) ==
    IF r[1] = 0 THEN r
    ELSE RoundScaled(IF r[1] < 0 THEN -1 ELSE 1, Abs(r[1]),
                     ShiftDown(Abs(r[1]), r[2], 1))

FloatAdd(a, b) == Float(RatAdd(a, b))
FloatSub(a, b) == Float(RatSub(a, b))
FloatMul(a, b) == Float(RatMul(a, b))
FloatDiv(a, b) == Float(RatDiv(a, b))

\* np.add.reduce over fewer than 8 elements: one accumulator, left to right
RECURSIVE FloatSum(_, _)
FloatSum(acc, s) ==
    IF s = <<>> THEN acc ELSE FloatSum(FloatAdd(acc, s[1]), Tail(s))

\* np.mean: the sum divided by the count
FloatMean(s) == FloatDiv(FloatSum(Num(0), s), Num(Len(s)))

-----------------------------------------------------------------------------
(* MetricsAnalyzer._calculate_stats and _analyze_trend *)

\* np.median: the middle element, or the mean of the two middle elements
Median(s) ==
    LET t == RatSort(s)
        n == Len(s)
    IN  IF n % 2 = 1 THEN t[(n + 1) \div 2]
        ELSE FloatMean(<<t[n \div 2], t[n \div 2 + 1]>>)

FloatSquare(x) == FloatMul(x, x)

\* the mean of the squared distances to m
MeanSquare(s, m) == FloatMean([i \in 1..Len(s) |-> FloatSquare(FloatSub(s[i], m))])

\* np.std squared (the population variance): the square root of a rational
\* is not a rational in general, so the summary carries std * std
Variance(s) == MeanSquare(s, FloatMean(s))

\* _calculate_stats giving zeros for an empty series
_calculate_stats_EmptyAsZero(vals) ==
    IF vals = <<>>
    THEN [min |-> Num(0), max |-> Num(0), mean |-> Num(0), median |-> Num(0),
          std_sq |-> Num(0)]
    ELSE [min |-> RatMin(vals), max |-> RatMax(vals), mean |-> FloatMean(vals),
          median |-> Median(vals), std_sq |-> Variance(vals)]

_calculate_stats(vals) ==
    IF vals = <<>>
    THEN [min |-> None, max |-> None, mean |-> None, median |-> None,
          std_sq |-> None]
    ELSE [min |-> RatMin(vals), max |-> RatMax(vals), mean |-> FloatMean(vals),
          median |-> Median(vals), std_sq |-> Variance(vals)]

\* np.polyfit(x, y, 1)[0] with x = 0..n-1: the least-squares slope
PolyfitSlope(y) ==
    LET n == Len(y)
        sx == RatSum([i \in 1..n |-> Num(i - 1)])
        sy == RatSum(y)
        sxy == RatSum([i \in 1..n |-> RatMul(Num(i - 1), y[i])])
        sxx == RatSum([i \in 1..n |-> Num((i - 1) * (i - 1))])
    IN  RatDiv(RatSub(RatMul(Num(n), sxy), RatMul(sx, sy)),
               RatSub(RatMul(Num(n), sxx), RatMul(sx, sx)))

\* threshold = mean_value * 0.01
TrendThreshold(y) == RatMul(RatDiv(RatSum(y), Num(Len(y))), Rat(1, 100))

_analyze_trend(vals) ==
    IF Len(vals) < 2 THEN "stable"
    ELSE LET slope == PolyfitSlope(vals)
             threshold == TrendThreshold(vals)
         IN  IF RatLt(RatAbs(slope), threshold) THEN "stable"
             ELSE IF RatGt(slope, Num(0)) THEN "increasing"
             ELSE "decreasing"

-----------------------------------------------------------------------------
(* MetricsAnalyzer.analyze_monthly_metrics *)

\* the list a loop builds by appending every value that "is not None"
Appended(perSnapshot) == SelectSeq(perSnapshot, LAMBDA v : v # None)

\* CpuUsageOf counting a missing usage_percent as 0
CpuUsageOf_MissingAsZero(metrics) ==
    LET cpu_data == DictGet(metrics, "cpu", EmptyDict)
        usage == DictGet(cpu_data, "usage_percent", None)
    IN  IF NonEmpty(cpu_data) /\ usage # None THEN usage ELSE Num(0)

\* the value one snapshot offers to the cpu_usage list (None: nothing appended)
CpuUsageOf(metrics) ==
    LET cpu_data == DictGet(metrics, "cpu", EmptyDict)
    IN  IF NonEmpty(cpu_data) THEN DictGet(cpu_data, "usage_percent", None)
        ELSE None

\* the value one snapshot offers to the load_1m / load_5m / load_15m list
CpuLoadOf(metrics, key) ==
    LET cpu_data == DictGet(metrics, "cpu", EmptyDict)
        load_avg == DictGet(cpu_data, "load_average", EmptyDict)
    IN  IF NonEmpty(cpu_data) THEN DictGet(load_avg, key, None) ELSE None

\* a variant that labels the CPU usage whatever its length
_analyze_cpu_metrics_AlwaysTrend(ml) ==
    LET cpu_usage == Appended([i \in 1..Len(ml) |-> CpuUsageOf(ml[i])])
        load_1m == Appended([i \in 1..Len(ml) |-> CpuLoadOf(ml[i], "1min")])
        load_5m == Appended([i \in 1..Len(ml) |-> CpuLoadOf(ml[i], "5min")])
        load_15m == Appended([i \in 1..Len(ml) |-> CpuLoadOf(ml[i], "15min")])
    IN  [usage |-> _calculate_stats(cpu_usage),
         load_average |->
             ("1min" :> _calculate_stats(load_1m))
             @@ ("5min" :> _calculate_stats(load_5m))
             @@ ("15min" :> _calculate_stats(load_15m)),
         trend |-> _analyze_trend(cpu_usage)]

_analyze_cpu_metrics(ml) ==
    LET cpu_usage == Appended([i \in 1..Len(ml) |-> CpuUsageOf(ml[i])])
        load_1m == Appended([i \in 1..Len(ml) |-> CpuLoadOf(ml[i], "1min")])
        load_5m == Appended([i \in 1..Len(ml) |-> CpuLoadOf(ml[i], "5min")])
        load_15m == Appended([i \in 1..Len(ml) |-> CpuLoadOf(ml[i], "15min")])
        stats == [usage |-> _calculate_stats(cpu_usage),
                  load_average |->
                      ("1min" :> _calculate_stats(load_1m))
                      @@ ("5min" :> _calculate_stats(load_5m))
                      @@ ("15min" :> _calculate_stats(load_15m))]
    IN  IF Len(cpu_usage) > 1
        THEN stats @@ [trend |-> _analyze_trend(cpu_usage)]
        ELSE stats

\* the value one snapshot offers to ram_percent, ram_used, swap_percent, swap_used
MemoryOf(metrics, part, key) ==
    LET mem_data == DictGet(metrics, "memory", EmptyDict)
        sub == DictGet(mem_data, part, EmptyDict)
    IN  IF NonEmpty(mem_data) THEN DictGet(sub, key, None) ELSE None

_analyze_memory_metrics(ml) ==
    LET ram_percent == Appended([i \in 1..Len(ml) |-> MemoryOf(ml[i], "ram", "percent")])
        swap_percent == Appended([i \in 1..Len(ml) |-> MemoryOf(ml[i], "swap", "percent")])
        ram_used == Appended([i \in 1..Len(ml) |-> MemoryOf(ml[i], "ram", "used")])
        swap_used == Appended([i \in 1..Len(ml) |-> MemoryOf(ml[i], "swap", "used")])
        ram == [usage_percent |-> _calculate_stats(ram_percent),
                usage_bytes |-> _calculate_stats(ram_used)]
        swap == [usage_percent |-> _calculate_stats(swap_percent),
                 usage_bytes |-> _calculate_stats(swap_used)]
    IN  [ram |-> IF Len(ram_percent) > 1
                 THEN ram @@ [trend |-> _analyze_trend(ram_percent)]
                 ELSE ram,
         swap |-> IF Len(swap_percent) > 1
                  THEN swap @@ [trend |-> _analyze_trend(swap_percent)]
                  ELSE swap]

\* An insertion-ordered dictionary keyed by mountpoint is a sequence of
\* <<mountpoint, value>> pairs with distinct mountpoints.
Keys(items) == {items[i][1] : i \in 1..Len(items)}

ItemOf(items, key) ==
    items[CHOOSE i \in 1..Len(items) : items[i][1] = key][2]

ItemGet(items, key, default) ==
    IF key \in Keys(items) THEN ItemOf(items, key) ELSE default

\* every partition of every snapshot, in the order the two loops visit them
RECURSIVE PartitionsOf(_)
PartitionsOf(ml) ==
    IF ml = <<>> THEN <<>>
    ELSE LET disk_data == DictGet(ml[1], "disk", EmptyDict)
         IN  DictGet(disk_data, "partitions", <<>>) \o PartitionsOf(Tail(ml))

AppendIfPresent(series, v) == IF v # None THEN Append(series, v) ELSE series

\* one pass of the inner loop body over partition, from partition_metrics pm
CollectPartition(pm, partition) ==
    LET mountpoint == DictGet(partition, "mountpoint", None)
        entry == ItemGet(pm, mountpoint,
                         [device |-> DictGet(partition, "device", None),
                          fstype |-> DictGet(partition, "fstype", None),
                          usage_percent |-> <<>>,
                          used_bytes |-> <<>>,
                          free_bytes |-> <<>>])
        updated == [entry EXCEPT
                      !.usage_percent =
                          AppendIfPresent(@, DictGet(partition, "percent", None)),
                      !.used_bytes =
                          AppendIfPresent(@, DictGet(partition, "used", None)),
                      !.free_bytes =
                          AppendIfPresent(@, DictGet(partition, "free", None))]
    IN  IF mountpoint = None \/ mountpoint = <<>> THEN pm
        ELSE IF mountpoint \in Keys(pm)
        THEN [i \in 1..Len(pm) |->
                 IF pm[i][1] = mountpoint THEN <<mountpoint, updated>> ELSE pm[i]]
        ELSE Append(pm, <<mountpoint, updated>>)

RECURSIVE partition_metrics(_, _)
partition_metrics(pm, parts) ==
    IF parts = <<>> THEN pm
    ELSE partition_metrics(CollectPartition(pm, parts[1]), Tail(parts))

PartitionStats(data) ==
    LET stats == [device |-> data.device,
                  fstype |-> data.fstype,
                  usage_percent |-> _calculate_stats(data.usage_percent),
                  used_bytes |-> _calculate_stats(data.used_bytes),
                  free_bytes |-> _calculate_stats(data.free_bytes)]
    IN  IF Len(data.usage_percent) > 1
        THEN stats @@ [trend |-> _analyze_trend(data.usage_percent)]
        ELSE stats

\* a variant that keeps only the partitions of the last snapshot
_analyze_disk_metrics_LastSnapshotOnly(ml) ==
    LET pm == partition_metrics(<<>>, PartitionsOf(SubSeq(ml, Len(ml), Len(ml))))
    IN  [i \in 1..Len(pm) |-> <<pm[i][1], PartitionStats(pm[i][2])>>]

_analyze_disk_metrics(ml) ==
    LET pm == partition_metrics(<<>>, PartitionsOf(ml))
    IN  [i \in 1..Len(pm) |-> <<pm[i][1], PartitionStats(pm[i][2])>>]

\* analyze_monthly_metrics with the period taken from the earliest and the
\* latest timestamp, as after sorting the snapshots by date
analyze_monthly_metrics_SortedPeriod(ml) ==
    IF ml = <<>> THEN EmptyDict
    ELSE LET stamps == {DictGet(ml[i], "timestamp", 0) : i \in 1..Len(ml)}
             before(a, b) ==
                 \/ a[1] < b[1]
                 \/ a[1] = b[1] /\ a[2] < b[2]
                 \/ a[1] = b[1] /\ a[2] = b[2] /\ a[3] <= b[3]
         IN  [period |-> [days_collected |-> Len(ml),
                          start_date |-> CHOOSE a \in stamps :
                                             \A b \in stamps : before(a, b),
                          end_date |-> CHOOSE a \in stamps :
                                           \A b \in stamps : before(b, a)],
              cpu |-> _analyze_cpu_metrics(ml),
              memory |-> _analyze_memory_metrics(ml),
              disk |-> _analyze_disk_metrics(ml)]

\* analyze_monthly_metrics without the early return on an empty list
analyze_monthly_metrics_NoEarlyReturn(ml) ==
    [period |-> [days_collected |-> Len(ml),
                 start_date |-> IF ml = <<>> THEN 0 ELSE DictGet(ml[1], "timestamp", 0),
                 end_date |-> IF ml = <<>> THEN 0 ELSE DictGet(ml[Len(ml)], "timestamp", 0)],
     cpu |-> _analyze_cpu_metrics(ml),
     memory |-> _analyze_memory_metrics(ml),
     disk |-> _analyze_disk_metrics(ml)]

analyze_monthly_metrics(ml) ==
    IF ml = <<>> THEN EmptyDict
    ELSE [period |-> [days_collected |-> Len(ml),
                      start_date |-> DictGet(ml[1], "timestamp", 0),
                      end_date |-> DictGet(ml[Len(ml)], "timestamp", 0)],
          cpu |-> _analyze_cpu_metrics(ml),
          memory |-> _analyze_memory_metrics(ml),
          disk |-> _analyze_disk_metrics(ml)]

-----------------------------------------------------------------------------
(* ThresholdChecker *)

\* the default limit of a missing CPU, memory or disk key: .get(key, 100)
DefaultLimit == 100

\* the default limit of a missing log key: float('inf'), which no count reaches
Infinity == <<1, 0>>

\* value >= limit, with limit possibly float('inf')
ReachesLimit(value, limit) == limit # Infinity /\ RatGe(value, limit)

\* f"{value:.1f}": the value rounded to one decimal, ties to even
Format1f(v) ==
    LET n == 10 * v[1]
        q == n \div v[2]
        r == n - q * v[2]
        up == 2 * r > v[2] \/ (2 * r = v[2] /\ q % 2 = 1)
    IN  Rat(IF up THEN q + 1 ELSE q, 10)

\* the outcome of a function: the exception it raised ("none": it returned)
\* and the list it returned
Returned(list) == [raised |-> "none", ret |-> list]
Raised(exc) == [raised |-> exc, ret |-> <<>>]

\* One "if cond: violations.append({...})" statement.  The dictionary display
\* reads limits[key] by subscript, which raises KeyError on a missing key.
AppendViolation(acc, cond, metric, value, shown, limits, key, severity) ==
    IF acc.raised # "none" \/ ~cond THEN acc
    ELSE IF key \notin DOMAIN limits THEN Raised("KeyError")
    ELSE Returned(Append(acc.ret,
                         [metric |-> metric,
                          value |-> value,
                          threshold |-> limits[key],
                          severity |-> severity,
                          message |-> [text |-> metric \o <<"exceeds", severity>>,
                                       value |-> shown,
                                       threshold |-> limits[key]]]))

_check_cpu_thresholds(th, cpu_analysis) ==
    LET cpu_thresholds == DictGet(th, "cpu", EmptyDict)
        usage_stats == DictGet(cpu_analysis, "usage", EmptyDict)
        avg_usage == DictGet(usage_stats, "mean", None)
        max_usage == DictGet(usage_stats, "max", None)
        critical == DictGet(cpu_thresholds, "critical", EmptyDict)
        warning == DictGet(cpu_thresholds, "warning", EmptyDict)
        v1 == AppendViolation(Returned(<<>>),
                  Truthy(avg_usage) /\ RatGe(avg_usage,
                      DictGet(critical, "avg_usage", Num(DefaultLimit))),
                  <<"CPU", "Average", "Usage">>, avg_usage, Format1f(avg_usage),
                  critical, "avg_usage", "critical")
        v2 == AppendViolation(v1,
                  Truthy(max_usage) /\ RatGe(max_usage,
                      DictGet(critical, "max_usage", Num(DefaultLimit))),
                  <<"CPU", "Maximum", "Usage">>, max_usage, Format1f(max_usage),
                  critical, "max_usage", "critical")
        v3 == AppendViolation(v2,
                  Truthy(avg_usage) /\ RatGe(avg_usage,
                      DictGet(warning, "avg_usage", Num(DefaultLimit))),
                  <<"CPU", "Average", "Usage">>, avg_usage, Format1f(avg_usage),
                  warning, "avg_usage", "warning")
        v4 == AppendViolation(v3,
                  Truthy(max_usage) /\ RatGe(max_usage,
                      DictGet(warning, "max_usage", Num(DefaultLimit))),
                  <<"CPU", "Maximum", "Usage">>, max_usage, Format1f(max_usage),
                  warning, "max_usage", "warning")
    IN  IF ~NonEmpty(usage_stats) THEN Returned(<<>>) ELSE v4

\* a variant that holds the RAM maximum against the RAM limits
_check_memory_thresholds_RamMax(th, memory_analysis) ==
    LET memory_thresholds == DictGet(th, "memory", EmptyDict)
        ram_stats == DictGet(DictGet(memory_analysis, "ram", EmptyDict),
                             "usage_percent", EmptyDict)
        swap_stats == DictGet(DictGet(memory_analysis, "swap", EmptyDict),
                              "usage_percent", EmptyDict)
        avg_ram == DictGet(ram_stats, "max", None)
        avg_swap == DictGet(swap_stats, "mean", None)
        critical == DictGet(memory_thresholds, "critical", EmptyDict)
        warning == DictGet(memory_thresholds, "warning", EmptyDict)
        v1 == AppendViolation(Returned(<<>>),
                  Truthy(avg_ram) /\ RatGe(avg_ram,
                      DictGet(critical, "ram_usage", Num(DefaultLimit))),
                  <<"RAM", "Average", "Usage">>, avg_ram, Format1f(avg_ram),
                  critical, "ram_usage", "critical")
        v2 == AppendViolation(v1,
                  Truthy(avg_swap) /\ RatGe(avg_swap,
                      DictGet(critical, "swap_usage", Num(DefaultLimit))),
                  <<"SWAP", "Average", "Usage">>, avg_swap, Format1f(avg_swap),
                  critical, "swap_usage", "critical")
        v3 == AppendViolation(v2,
                  Truthy(avg_ram) /\ RatGe(avg_ram,
                      DictGet(warning, "ram_usage", Num(DefaultLimit))),
                  <<"RAM", "Average", "Usage">>, avg_ram, Format1f(avg_ram),
                  warning, "ram_usage", "warning")
        v4 == AppendViolation(v3,
                  Truthy(avg_swap) /\ RatGe(avg_swap,
                      DictGet(warning, "swap_usage", Num(DefaultLimit))),
                  <<"SWAP", "Average", "Usage">>, avg_swap, Format1f(avg_swap),
                  warning, "swap_usage", "warning")
    IN  v4

_check_memory_thresholds(th, memory_analysis) ==
    LET memory_thresholds == DictGet(th, "memory", EmptyDict)
        ram_stats == DictGet(DictGet(memory_analysis, "ram", EmptyDict),
                             "usage_percent", EmptyDict)
        swap_stats == DictGet(DictGet(memory_analysis, "swap", EmptyDict),
                              "usage_percent", EmptyDict)
        avg_ram == DictGet(ram_stats, "mean", None)
        avg_swap == DictGet(swap_stats, "mean", None)
        critical == DictGet(memory_thresholds, "critical", EmptyDict)
        warning == DictGet(memory_thresholds, "warning", EmptyDict)
        v1 == AppendViolation(Returned(<<>>),
                  Truthy(avg_ram) /\ RatGe(avg_ram,
                      DictGet(critical, "ram_usage", Num(DefaultLimit))),
                  <<"RAM", "Average", "Usage">>, avg_ram, Format1f(avg_ram),
                  critical, "ram_usage", "critical")
        v2 == AppendViolation(v1,
                  Truthy(avg_swap) /\ RatGe(avg_swap,
                      DictGet(critical, "swap_usage", Num(DefaultLimit))),
                  <<"SWAP", "Average", "Usage">>, avg_swap, Format1f(avg_swap),
                  critical, "swap_usage", "critical")
        v3 == AppendViolation(v2,
                  Truthy(avg_ram) /\ RatGe(avg_ram,
                      DictGet(warning, "ram_usage", Num(DefaultLimit))),
                  <<"RAM", "Average", "Usage">>, avg_ram, Format1f(avg_ram),
                  warning, "ram_usage", "warning")
        v4 == AppendViolation(v3,
                  Truthy(avg_swap) /\ RatGe(avg_swap,
                      DictGet(warning, "swap_usage", Num(DefaultLimit))),
                  <<"SWAP", "Average", "Usage">>, avg_swap, Format1f(avg_swap),
                  warning, "swap_usage", "warning")
    IN  v4

\* the body of the loop over disk_analysis.items() for one mountpoint
CheckMountpoint(acc, disk_thresholds, mountpoint, stats) ==
    LET usage_stats == DictGet(stats, "usage_percent", EmptyDict)
        avg_usage == DictGet(usage_stats, "mean", None)
        critical == DictGet(disk_thresholds, "critical", EmptyDict)
        warning == DictGet(disk_thresholds, "warning", EmptyDict)
        v1 == AppendViolation(acc,
                  RatGe(avg_usage, DictGet(critical, "usage", Num(DefaultLimit))),
                  <<"Disk", "Usage", "(">> \o mountpoint \o <<")">>,
                  avg_usage, Format1f(avg_usage), critical, "usage", "critical")
        v2 == AppendViolation(v1,
                  RatGe(avg_usage, DictGet(warning, "usage", Num(DefaultLimit))),
                  <<"Disk", "Usage", "(">> \o mountpoint \o <<")">>,
                  avg_usage, Format1f(avg_usage), warning, "usage", "warning")
    IN  IF ~Truthy(avg_usage) THEN acc ELSE v2

RECURSIVE CheckMountpoints(_, _, _)
CheckMountpoints(acc, disk_thresholds, items) ==
    IF items = <<>> THEN acc
    ELSE CheckMountpoints(
             CheckMountpoint(acc, disk_thresholds, items[1][1], items[1][2]),
             disk_thresholds, Tail(items))

_check_disk_thresholds(th, disk_analysis) ==
    CheckMountpoints(Returned(<<>>), DictGet(th, "disk", EmptyDict), disk_analysis)

\* a variant with a warning tier for kernel errors
_check_log_thresholds_KernelWarning(th, logs) ==
    LET log_thresholds == DictGet(th, "logs", EmptyDict)
        total_errors == DictGet(DictGet(logs, "summary", EmptyDict),
                                "total_errors", Num(0))
        kernel_errors == DictGet(DictGet(logs, "kernel_log", EmptyDict),
                                 "error_count", Num(0))
        critical == DictGet(log_thresholds, "critical", EmptyDict)
        warning == DictGet(log_thresholds, "warning", EmptyDict)
        v1 == AppendViolation(Returned(<<>>),
                  ReachesLimit(total_errors,
                               DictGet(critical, "error_count", Infinity)),
                  <<"Total", "Log", "Errors">>, total_errors, total_errors,
                  critical, "error_count", "critical")
        v2 == AppendViolation(v1,
                  ReachesLimit(kernel_errors,
                               DictGet(critical, "kernel_errors", Infinity)),
                  <<"Kernel", "Errors">>, kernel_errors, kernel_errors,
                  critical, "kernel_errors", "critical")
        v3 == AppendViolation(v2,
                  ReachesLimit(total_errors,
                               DictGet(warning, "error_count", Infinity)),
                  <<"Total", "Log", "Errors">>, total_errors, total_errors,
                  warning, "error_count", "warning")
        v4 == AppendViolation(v3,
                  ReachesLimit(kernel_errors,
                               DictGet(warning, "kernel_errors", Infinity)),
                  <<"Kernel", "Errors">>, kernel_errors, kernel_errors,
                  warning, "kernel_errors", "warning")
    IN  v4

_check_log_thresholds(th, logs) ==
    LET log_thresholds == DictGet(th, "logs", EmptyDict)
        total_errors == DictGet(DictGet(logs, "summary", EmptyDict),
                                "total_errors", Num(0))
        kernel_errors == DictGet(DictGet(logs, "kernel_log", EmptyDict),
                                 "error_count", Num(0))
        critical == DictGet(log_thresholds, "critical", EmptyDict)
        warning == DictGet(log_thresholds, "warning", EmptyDict)
        v1 == AppendViolation(Returned(<<>>),
                  ReachesLimit(total_errors,
                               DictGet(critical, "error_count", Infinity)),
                  <<"Total", "Log", "Errors">>, total_errors, total_errors,
                  critical, "error_count", "critical")
        v2 == AppendViolation(v1,
                  ReachesLimit(kernel_errors,
                               DictGet(critical, "kernel_errors", Infinity)),
                  <<"Kernel", "Errors">>, kernel_errors, kernel_errors,
                  critical, "kernel_errors", "critical")
        v3 == AppendViolation(v2,
                  ReachesLimit(total_errors,
                               DictGet(warning, "error_count", Infinity)),
                  <<"Total", "Log", "Errors">>, total_errors, total_errors,
                  warning, "error_count", "warning")
    IN  v3

\* violations.extend(part): an exception of part ends the whole evaluation
Extend(acc, part) ==
    IF acc.raised # "none" THEN acc
    ELSE IF part.raised # "none" THEN part
    ELSE Returned(acc.ret \o part.ret)

\* log_analysis = None (the default) is NoLogs; "if log_analysis:" is false
\* for None and for the empty dictionary
NoLogs == [is_none |-> TRUE]

LogProvided(logs) == logs # NoLogs /\ NonEmpty(logs)

check_all_thresholds(th, an, logs) ==
    LET c == _check_cpu_thresholds(th, DictGet(an, "cpu", EmptyDict))
        m == Extend(c, _check_memory_thresholds(th, DictGet(an, "memory", EmptyDict)))
        d == Extend(m, _check_disk_thresholds(th, DictGet(an, "disk", <<>>)))
    IN  IF LogProvided(logs) THEN Extend(d, _check_log_thresholds(th, logs)) ELSE d

-----------------------------------------------------------------------------
(* RecommendationEngine *)

\* Python's "sub in label" on labels, which are sequences of words
Contains(label, sub) ==
    \E i \in 1..(Len(label) - Len(sub) + 1) :
        SubSeq(label, i, i + Len(sub) - 1) = sub

\* violation.get('message', '')
NoMessage == [text |-> <<>>, value |-> None, threshold |-> None]

\* SeverityPriority with the two priorities exchanged
SeverityPriority_Exchanged(severity) ==
    IF severity = "critical" THEN "medium" ELSE "high"

SeverityPriority(severity) == IF severity = "critical" THEN "high" ELSE "medium"

CpuActions ==
    << <<"Identify CPU-intensive processes using top or htop">>,
       <<"Consider optimizing or limiting resource-heavy applications">>,
       <<"Review cron jobs and scheduled tasks">>,
       <<"Consider upgrading CPU or adding more cores if sustained high usage">> >>

RamActions ==
    << <<"Identify memory-intensive processes using top or htop">>,
       <<"Check for memory leaks in applications">>,
       <<"Review and optimize application configurations">>,
       <<"Consider adding more RAM if consistently high usage">>,
       <<"Enable or tune swap if not already configured">> >>

SwapActions ==
    << <<"High swap usage indicates RAM pressure">>,
       <<"Increase physical RAM to reduce swap dependency">>,
       <<"Review memory-intensive applications">>,
       <<"Consider adjusting swappiness value (default: 60)">> >>

DiskActions ==
    << <<"Clean up old log files and temporary files">>,
       <<"Review and optimize log rotation policies">>,
       <<"Use ncdu or du to identify large files and directories">>,
       <<"Consider expanding disk space or adding new volumes">>,
       <<"Archive or delete old backups and snapshots">> >>

LogActions ==
    << <<"Review system logs for recurring error patterns">>,
       <<"Address underlying issues causing errors">>,
       <<"Monitor application health and stability">>,
       <<"Consider setting up automated alerting for critical errors">> >>

KernelActions ==
    << <<"Review kernel logs for hardware issues">>,
       <<"Check system memory and disk health">>,
       <<"Update system firmware and drivers">>,
       <<"Consider running hardware diagnostics">>,
       <<"Monitor for signs of failing hardware">> >>

\* the if / elif chain of the loop body: the recommendations one violation adds
ViolationRecommendation(violation) ==
    LET metric == DictGet(violation, "metric", <<>>)
        severity == DictGet(violation, "severity", "warning")
        description == DictGet(violation, "message", NoMessage)
    IN  IF Contains(metric, <<"CPU">>)
        THEN << [category |-> "CPU",
                 priority |-> SeverityPriority(severity),
                 title |-> <<"High", "CPU", "Usage", "Detected">>,
                 description |-> description,
                 actions |-> CpuActions] >>
        ELSE IF Contains(metric, <<"RAM">>)
        THEN << [category |-> "Memory",
                 priority |-> SeverityPriority(severity),
                 title |-> <<"High", "Memory", "Usage", "Detected">>,
                 description |-> description,
                 actions |-> RamActions] >>
        ELSE IF Contains(metric, <<"SWAP">>)
        THEN << [category |-> "Memory",
                 priority |-> SeverityPriority(severity),
                 title |-> <<"High", "SWAP", "Usage", "Detected">>,
                 description |-> description,
                 actions |-> SwapActions] >>
        ELSE IF Contains(metric, <<"Disk">>)
        THEN << [category |-> "Disk",
                 priority |-> SeverityPriority(severity),
                 title |-> <<"High", "Disk", "Usage", "Detected">>,
                 description |-> description,
                 actions |-> DiskActions] >>
        ELSE IF Contains(metric, <<"Log", "Errors">>)
        THEN << [category |-> "Logs",
                 priority |-> SeverityPriority(severity),
                 title |-> <<"High", "Error", "Count", "in", "Logs">>,
                 description |-> description,
                 actions |-> LogActions] >>
        ELSE IF Contains(metric, <<"Kernel">>)
        THEN << [category |-> "System",
                 priority |-> "critical",
                 title |-> <<"Kernel", "Errors", "Detected">>,
                 description |-> description,
                 actions |-> KernelActions] >>
        ELSE <<>>

RECURSIVE _recommendations_from_violations(_)
_recommendations_from_violations(vs) ==
    IF vs = <<>> THEN <<>>
    ELSE ViolationRecommendation(vs[1])
         \o _recommendations_from_violations(Tail(vs))

\* the averages above which an increasing trend is reported
CpuTrendLimit == 50
RamTrendLimit == 60
DiskTrendLimit == 60

\* AppendTrend comparing the average before it looks at the trend label
AppendTrend_Unguarded(acc, trendLabel, avg, limit, rec) ==
    IF acc.raised # "none" THEN acc
    ELSE IF avg = None THEN Raised("TypeError")
    ELSE IF trendLabel = "increasing" /\ RatGt(avg, Num(limit))
    THEN Returned(Append(acc.ret, rec))
    ELSE acc

\* AppendTrend appending already at the limit
AppendTrend_AtLimit(acc, trendLabel, avg, limit, rec) ==
    IF acc.raised # "none" \/ trendLabel # "increasing" THEN acc
    ELSE IF avg = None THEN Raised("TypeError")
    ELSE IF RatGe(avg, Num(limit)) THEN Returned(Append(acc.ret, rec))
    ELSE acc

\* One "if avg > limit: recommendations.append({...})" statement under an
\* increasing trend; comparing None with a number raises TypeError.
AppendTrend(acc, trendLabel, avg, limit, rec) ==
    IF acc.raised # "none" \/ trendLabel # "increasing" THEN acc
    ELSE IF avg = None THEN Raised("TypeError")
    ELSE IF RatGt(avg, Num(limit)) THEN Returned(Append(acc.ret, rec))
    ELSE acc

TrendDescription(text, avg) ==
    [text |-> text, value |-> Format1f(avg), threshold |-> None]

RECURSIVE DiskTrends(_, _)
DiskTrends(acc, items) ==
    IF items = <<>> THEN acc
    ELSE LET mountpoint == items[1][1]
             stats == items[1][2]
             avg_usage == DictGet(DictGet(stats, "usage_percent", EmptyDict),
                                  "mean", Num(0))
         IN  DiskTrends(
                 AppendTrend(acc, DictGet(stats, "trend", "None"), avg_usage,
                     DiskTrendLimit,
                     [category |-> "Disk",
                      priority |-> "medium",
                      title |-> <<"Increasing", "Disk", "Usage", "Trend", "(">>
                                \o mountpoint \o <<")">>,
                      description |->
                          TrendDescription(<<"Disk", "usage", "for">> \o mountpoint
                                           \o <<"is", "trending", "upward">>,
                                           avg_usage),
                      actions |->
                          << <<"Monitor disk usage on">> \o mountpoint,
                             <<"Implement or review log rotation policies">>,
                             <<"Plan for storage expansion if needed">>,
                             <<"Consider archiving old data">> >>]),
                 Tail(items))

_recommendations_from_trends(an) ==
    LET cpu == DictGet(an, "cpu", EmptyDict)
        avg_usage == DictGet(DictGet(cpu, "usage", EmptyDict), "mean", Num(0))
        memory == DictGet(an, "memory", EmptyDict)
        ram == DictGet(memory, "ram", EmptyDict)
        avg_ram == DictGet(DictGet(ram, "usage_percent", EmptyDict), "mean", Num(0))
        r1 == AppendTrend(Returned(<<>>), DictGet(cpu, "trend", "None"), avg_usage,
                  CpuTrendLimit,
                  [category |-> "CPU",
                   priority |-> "medium",
                   title |-> <<"Increasing", "CPU", "Usage", "Trend">>,
                   description |->
                       TrendDescription(<<"CPU", "usage", "is", "trending", "upward">>,
                                        avg_usage),
                   actions |->
                       << <<"Monitor CPU usage closely over the next month">>,
                          <<"Identify processes contributing to increased usage">>,
                          <<"Plan for capacity upgrade if trend continues">> >>])
        r2 == AppendTrend(r1, DictGet(ram, "trend", "None"), avg_ram,
                  RamTrendLimit,
                  [category |-> "Memory",
                   priority |-> "medium",
                   title |-> <<"Increasing", "Memory", "Usage", "Trend">>,
                   description |->
                       TrendDescription(<<"Memory", "usage", "is", "trending", "upward">>,
                                        avg_ram),
                   actions |->
                       << <<"Investigate potential memory leaks">>,
                          <<"Monitor memory usage patterns">>,
                          <<"Plan for RAM upgrade if trend continues">>,
                          <<"Review application memory configurations">> >>])
    IN  DiskTrends(r2, DictGet(an, "disk", <<>>))

\* the counts above which the logs produce a recommendation
SecurityEventsLimit == 10
KernelErrorsLimit == 5

\* a variant that already recommends at the limits
_recommendations_from_logs_AtLimit(logs) ==
    LET security_events == DictGet(DictGet(logs, "auth_log", EmptyDict),
                                   "security_events", Num(0))
        kernel_errors == DictGet(DictGet(logs, "kernel_log", EmptyDict),
                                 "error_count", Num(0))
        security ==
            IF RatGe(security_events, Num(SecurityEventsLimit))
            THEN << [category |-> "Security",
                     priority |-> "high",
                     title |-> <<"Multiple", "Security", "Events", "Detected">>,
                     description |-> [text |-> <<"security-related", "events">>,
                                      value |-> security_events,
                                      threshold |-> None],
                     actions |->
                         << <<"Review authentication logs for suspicious activity">>,
                            <<"Consider implementing fail2ban to block repeated login attempts">>,
                            <<"Strengthen SSH security (disable root login, use key-based auth)">>,
                            <<"Review user access and permissions">>,
                            <<"Enable and configure firewall (ufw or iptables)">> >>] >>
            ELSE <<>>
        kernel ==
            IF RatGe(kernel_errors, Num(KernelErrorsLimit))
            THEN << [category |-> "System",
                     priority |-> "critical",
                     title |-> <<"Kernel", "Errors", "Require", "Attention">>,
                     description |-> [text |-> <<"kernel", "errors">>,
                                      value |-> kernel_errors,
                                      threshold |-> None],
                     actions |->
                         << <<"Review kernel logs immediately for hardware issues">>,
                            <<"Check system stability and uptime">>,
                            <<"Run hardware diagnostics">>,
                            <<"Update kernel to latest stable version">>,
                            <<"Monitor system for crashes or freezes">> >>] >>
            ELSE <<>>
    IN  security \o kernel

_recommendations_from_logs(logs) ==
    LET security_events == DictGet(DictGet(logs, "auth_log", EmptyDict),
                                   "security_events", Num(0))
        kernel_errors == DictGet(DictGet(logs, "kernel_log", EmptyDict),
                                 "error_count", Num(0))
        security ==
            IF RatGt(security_events, Num(SecurityEventsLimit))
            THEN << [category |-> "Security",
                     priority |-> "high",
                     title |-> <<"Multiple", "Security", "Events", "Detected">>,
                     description |-> [text |-> <<"security-related", "events">>,
                                      value |-> security_events,
                                      threshold |-> None],
                     actions |->
                         << <<"Review authentication logs for suspicious activity">>,
                            <<"Consider implementing fail2ban to block repeated login attempts">>,
                            <<"Strengthen SSH security (disable root login, use key-based auth)">>,
                            <<"Review user access and permissions">>,
                            <<"Enable and configure firewall (ufw or iptables)">> >>] >>
            ELSE <<>>
        kernel ==
            IF RatGt(kernel_errors, Num(KernelErrorsLimit))
            THEN << [category |-> "System",
                     priority |-> "critical",
                     title |-> <<"Kernel", "Errors", "Require", "Attention">>,
                     description |-> [text |-> <<"kernel", "errors">>,
                                      value |-> kernel_errors,
                                      threshold |-> None],
                     actions |->
                         << <<"Review kernel logs immediately for hardware issues">>,
                            <<"Check system stability and uptime">>,
                            <<"Run hardware diagnostics">>,
                            <<"Update kernel to latest stable version">>,
                            <<"Monitor system for crashes or freezes">> >>] >>
            ELSE <<>>
    IN  security \o kernel

\* Deduplicate keeping the last recommendation of each title, not the first
RECURSIVE Deduplicate_KeepLast(_, _, _)
Deduplicate_KeepLast(recs, seen_titles, unique_recommendations) ==
    IF recs = <<>> THEN unique_recommendations
    ELSE LET title == DictGet(recs[1], "title", <<>>)
             later == {DictGet(recs[i], "title", <<>>) : i \in 2..Len(recs)}
         IN  IF title \notin later
             THEN Deduplicate_KeepLast(Tail(recs), seen_titles,
                                       Append(unique_recommendations, recs[1]))
             ELSE Deduplicate_KeepLast(Tail(recs), seen_titles,
                                       unique_recommendations)

\* the first loop of _prioritize_recommendations: unique_recommendations
RECURSIVE Deduplicate(_, _, _)
Deduplicate(recs, seen_titles, unique_recommendations) ==
    IF recs = <<>> THEN unique_recommendations
    ELSE LET title == DictGet(recs[1], "title", <<>>)
         IN  IF title \notin seen_titles
             THEN Deduplicate(Tail(recs), seen_titles \cup {title},
                              Append(unique_recommendations, recs[1]))
             ELSE Deduplicate(Tail(recs), seen_titles, unique_recommendations)

\* priority_order.get(x.get('priority', 'low'), 3)
PriorityOrder(rec) ==
    LET priority == DictGet(rec, "priority", "low")
    IN  IF priority = "critical" THEN 0
        ELSE IF priority = "high" THEN 1
        ELSE IF priority = "medium" THEN 2
        ELSE 3

\* InsertByKey placing an element before the elements of equal key
RECURSIVE InsertByKey_Unstable(_, _)
InsertByKey_Unstable(sortedRecs, rec) ==
    IF sortedRecs = <<>> THEN <<rec>>
    ELSE IF PriorityOrder(sortedRecs[1]) < PriorityOrder(rec)
    THEN <<sortedRecs[1]>> \o InsertByKey_Unstable(Tail(sortedRecs), rec)
    ELSE <<rec>> \o sortedRecs

\* sorted(..., key=...) is stable: each element goes behind every element
\* already placed whose key is not greater
RECURSIVE InsertByKey(_, _)
InsertByKey(sortedRecs, rec) ==
    IF sortedRecs = <<>> THEN <<rec>>
    ELSE IF PriorityOrder(sortedRecs[1]) <= PriorityOrder(rec)
    THEN <<sortedRecs[1]>> \o InsertByKey(Tail(sortedRecs), rec)
    ELSE <<rec>> \o sortedRecs

RECURSIVE SortedByKey(_, _)
SortedByKey(done, recs) ==
    IF recs = <<>> THEN done
    ELSE SortedByKey(InsertByKey(done, recs[1]), Tail(recs))

_prioritize_recommendations(recs) ==
    SortedByKey(<<>>, Deduplicate(recs, {}, <<>>))

\* count: int = 3
DefaultCount == 3

\* recommendations[-count:], the last elements
get_top_recommendations_Last(recs, n) ==
    LET k == IF n < 0 THEN 0 ELSE IF n < Len(recs) THEN n ELSE Len(recs)
    IN  SubSeq(recs, Len(recs) - k + 1, Len(recs))

\* recommendations[:count]: a slice stops at the length, and a negative count
\* counts from the end
get_top_recommendations(recs, n) ==
    LET stop == IF n < 0 THEN (IF Len(recs) + n > 0 THEN Len(recs) + n ELSE 0)
                ELSE IF n < Len(recs) THEN n ELSE Len(recs)
    IN  SubSeq(recs, 1, stop)

\* the concatenation handed to _prioritize_recommendations
AllRecommendations(an, vs, logs) ==
    LET v == Returned(_recommendations_from_violations(vs))
        t == Extend(v, _recommendations_from_trends(an))
    IN  IF LogProvided(logs)
        THEN Extend(t, Returned(_recommendations_from_logs(logs)))
        ELSE t

generate_recommendations(an, vs, logs) ==
    LET all == AllRecommendations(an, vs, logs)
    IN  IF all.raised # "none" THEN all
        ELSE Returned(_prioritize_recommendations(all.ret))

-----------------------------------------------------------------------------
(* MetricsAnalyzer.get_summary_statistics *)

\* root_disk with any first mountpoint standing in for a missing "/"
root_disk_FirstMountpoint(disk) ==
    ItemGet(disk, <<"/">>, IF disk = <<>> THEN EmptyDict ELSE disk[1][2])

\* root_disk = disk.get('/', disk.get('/home', {}))
root_disk(disk) ==
    ItemGet(disk, <<"/">>, ItemGet(disk, <<"/", "home">>, EmptyDict))

get_summary_statistics(an) ==
    LET cpu == DictGet(an, "cpu", EmptyDict)
        usage == DictGet(cpu, "usage", EmptyDict)
        memory == DictGet(an, "memory", EmptyDict)
        ram == DictGet(memory, "ram", EmptyDict)
        ram_percent == DictGet(ram, "usage_percent", EmptyDict)
        swap_percent == DictGet(DictGet(memory, "swap", EmptyDict),
                                "usage_percent", EmptyDict)
        disk == DictGet(an, "disk", <<>>)
        root == root_disk(disk)
        root_percent == DictGet(root, "usage_percent", EmptyDict)
    IN  [collection_period |-> DictGet(an, "period", EmptyDict),
         cpu_summary |->
             IF NonEmpty(usage)
             THEN [avg_usage |-> DictGet(usage, "mean", None),
                   max_usage |-> DictGet(usage, "max", None),
                   trend |-> DictGet(cpu, "trend", "stable")]
             ELSE EmptyDict,
         memory_summary |->
             IF NonEmpty(ram_percent)
             THEN [avg_ram_usage |-> DictGet(ram_percent, "mean", None),
                   max_ram_usage |-> DictGet(ram_percent, "max", None),
                   avg_swap_usage |-> DictGet(swap_percent, "mean", None),
                   trend |-> DictGet(ram, "trend", "stable")]
             ELSE EmptyDict,
         disk_summary |->
             IF NonEmpty(root_percent)
             THEN [avg_usage |-> DictGet(root_percent, "mean", None),
                   max_usage |-> DictGet(root_percent, "max", None),
                   trend |-> DictGet(root, "trend", "stable")]
             ELSE EmptyDict]

-----------------------------------------------------------------------------
(* Inputs: the snapshots the collector stores, one per day *)

\* the longest snapshot list analysed
MaxDays == 3

\* What SystemMonitor.collect_all_metrics reads on day d when nothing fails.
Reading(d) ==
    [timestamp |-> d,
     cpu |-> [usage_percent |-> Num(10 * d),
              load_average |-> ("1min" :> Num(d)) @@ ("5min" :> Num(2))
                               @@ ("15min" :> Num(3))],
     memory |-> [ram |-> [percent |-> Num(60 + 10 * d), used |-> Num(4 + d)],
                 swap |-> [percent |-> Num(0), used |-> Num(0)]],
     disk |-> [partitions |->
                  << [mountpoint |-> <<"/">>, device |-> "sda1",
                      fstype |-> "ext4", percent |-> Num(50 + 10 * d),
                      used |-> Num(5 + d), free |-> Num(5 - d)],
                     [mountpoint |-> <<"/", "home">>, device |-> "sda2",
                      fstype |-> "ext4", percent |-> Num(30),
                      used |-> Num(3), free |-> Num(7)] >>]]

Without(d, key) == [k \in DOMAIN d \ {key} |-> d[k]]

\* The ways one collection falls short: a collector that fails returns {}
\* (collect_cpu_metrics, collect_memory_metrics, collect_disk_metrics), a
\* value that cannot be read is None, a key may be missing altogether.
CpuFailures ==
    {"no_cpu", "empty_cpu", "usage_none", "no_usage", "no_load", "load1_none",
     "load5_none", "load15_none"}

MemoryFailures ==
    {"no_memory", "empty_memory", "no_ram", "no_swap", "ram_percent_none",
     "ram_used_none", "swap_percent_none", "swap_used_none"}

\* a partition may also be unmounted that day, sit on another device, or have
\* /var mounted in its place
DiskFailures ==
    {"no_disk", "empty_disk", "no_partitions", "home_absent", "root_absent",
     "root_no_mountpoint", "root_percent_none", "root_bare",
     "root_other_device", "var_for_root", "var_only"}

Failures == {"none"} \cup CpuFailures \cup MemoryFailures \cup DiskFailures

Snapshot(d, failure) ==
    LET r == Reading(d)
        root == r.disk.partitions[1]
        home == r.disk.partitions[2]
        var == [root EXCEPT !.mountpoint = <<"/", "var">>, !.device = "sdc1"]
    IN  CASE failure = "none" -> r
          [] failure = "no_cpu" -> Without(r, "cpu")
          [] failure = "empty_cpu" -> [r EXCEPT !.cpu = EmptyDict]
          [] failure = "usage_none" -> [r EXCEPT !.cpu.usage_percent = None]
          [] failure = "no_usage" ->
                 [r EXCEPT !.cpu = Without(r.cpu, "usage_percent")]
          [] failure = "no_load" ->
                 [r EXCEPT !.cpu = Without(r.cpu, "load_average")]
          [] failure = "load1_none" ->
                 [r EXCEPT !.cpu.load_average["1min"] = None]
          [] failure = "load5_none" ->
                 [r EXCEPT !.cpu.load_average["5min"] = None]
          [] failure = "load15_none" ->
                 [r EXCEPT !.cpu.load_average =
                     Without(r.cpu.load_average, "15min")]
          [] failure = "no_memory" -> Without(r, "memory")
          [] failure = "empty_memory" -> [r EXCEPT !.memory = EmptyDict]
          [] failure = "no_ram" -> [r EXCEPT !.memory = Without(r.memory, "ram")]
          [] failure = "no_swap" -> [r EXCEPT !.memory = Without(r.memory, "swap")]
          [] failure = "ram_percent_none" ->
                 [r EXCEPT !.memory.ram.percent = None]
          [] failure = "ram_used_none" ->
                 [r EXCEPT !.memory.ram = Without(r.memory.ram, "used")]
          [] failure = "swap_percent_none" ->
                 [r EXCEPT !.memory.swap.percent = None]
          [] failure = "swap_used_none" -> [r EXCEPT !.memory.swap.used = None]
          [] failure = "no_disk" -> Without(r, "disk")
          [] failure = "empty_disk" -> [r EXCEPT !.disk = EmptyDict]
          [] failure = "no_partitions" -> [r EXCEPT !.disk = [io_counters |-> None]]
          [] failure = "home_absent" -> [r EXCEPT !.disk.partitions = <<root>>]
          [] failure = "root_absent" -> [r EXCEPT !.disk.partitions = <<home>>]
          [] failure = "root_no_mountpoint" ->
                 [r EXCEPT !.disk.partitions = <<Without(root, "mountpoint"), home>>]
          [] failure = "root_percent_none" ->
                 [r EXCEPT !.disk.partitions[1].percent = None]
          [] failure = "root_bare" ->
                 [r EXCEPT !.disk.partitions = <<[mountpoint |-> <<"/">>], home>>]
          [] failure = "root_other_device" ->
                 [r EXCEPT !.disk.partitions[1].device = "sdb1",
                           !.disk.partitions[1].fstype = "xfs"]
          [] failure = "var_for_root" -> [r EXCEPT !.disk.partitions = <<var, home>>]
          [] failure = "var_only" -> [r EXCEPT !.disk.partitions = <<var>>]

\* the failures that meet each other on the days of the longest lists
CommonFailures ==
    {"none", "empty_cpu", "usage_none", "ram_percent_none", "empty_disk"}

\* the longest snapshot list in which a family may fail in every way
MaxSparseDays == 2

\* the failures of up to n days, day d failing in one way of fs
ChoicesOver(fs, n) == UNION {[1..k -> fs] : k \in 0..n}

\* one family failing in every way on any day, or the common failures mixed
FailureChoices ==
    ChoicesOver(CommonFailures, MaxDays)
    \cup ChoicesOver({"none"} \cup CpuFailures, MaxSparseDays)
    \cup ChoicesOver({"none"} \cup MemoryFailures, MaxSparseDays)
    \cup ChoicesOver({"none"} \cup DiskFailures, MaxSparseDays)

\* the snapshot list of the month whose day d fails as f[d]
SnapshotList(f) == [d \in DOMAIN f |-> Snapshot(d, f[d])]

\* a threshold configuration with every limit present
TypicalThresholds ==
    [cpu |-> [critical |-> [avg_usage |-> Num(90), max_usage |-> Num(95)],
              warning |-> [avg_usage |-> Num(15), max_usage |-> Num(30)]],
     memory |-> [critical |-> [ram_usage |-> Num(90), swap_usage |-> Num(50)],
                 warning |-> [ram_usage |-> Num(80), swap_usage |-> Num(25)]],
     disk |-> [critical |-> [usage |-> Num(90)],
               warning |-> [usage |-> Num(65)]],
     logs |-> [critical |-> [error_count |-> Num(100), kernel_errors |-> Num(10)],
               warning |-> [error_count |-> Num(50)]]]

\* a LogAnalyzer.analyze_all_logs result
LogSummary(total, kernel, security) ==
    [summary |-> [total_errors |-> Num(total)],
     kernel_log |-> [error_count |-> Num(kernel)],
     auth_log |-> [security_events |-> Num(security)]]

\* get_top_recommendations not called yet
TopUnused ==
    /\ count = None
    /\ top_recommendations = <<>>

\* the storage plays no part: the snapshots are given
StoreUnused ==
    /\ files = EmptyDict
    /\ clock = None
    /\ retention_months = 0
    /\ asked = None
    /\ saves = <<>>

\* nothing built, nothing returned
NoReport == [charts |-> FALSE, tables |-> FALSE, pdf |-> FALSE, returned |-> "none"]

-----------------------------------------------------------------------------
(* The pipeline as a state machine: the caller's position is pc *)

Init ==
    /\ pc = "start"
    /\ \E f \in FailureChoices :
           /\ metrics_list = SnapshotList(f)
           /\ log_analysis \in
                  IF f \in ChoicesOver(CommonFailures, MaxDays)
                  THEN {NoLogs, LogSummary(60, 12, 11)}
                  ELSE {NoLogs}
    /\ thresholds = TypicalThresholds
    /\ analysis = EmptyDict
    /\ summary = EmptyDict
    /\ violations = <<>>
    /\ candidates = <<>>
    /\ recommendations = <<>>
    /\ raised = "none"
    /\ report = NoReport
    /\ StoreUnused
    /\ TopUnused
    /\ values = <<>>
    /\ trend = "none"

\* analysis = analyzer.analyze_monthly_metrics(metrics_list)
AnalyzeMonthlyMetrics ==
    /\ pc = "start"
    /\ analysis' = analyze_monthly_metrics(metrics_list)
    /\ pc' = "analyzed"
    /\ UNCHANGED <<store, top, report, metrics_list, summary, thresholds, log_analysis, violations,
                   candidates, recommendations, raised, values, trend>>

\* summary = analyzer.get_summary_statistics(analysis)
GetSummaryStatistics ==
    /\ pc = "analyzed"
    /\ summary' = get_summary_statistics(analysis)
    /\ pc' = "summarized"
    /\ UNCHANGED <<store, top, report, metrics_list, analysis, thresholds, log_analysis, violations,
                   candidates, recommendations, raised, values, trend>>

\* violations = ThresholdChecker(thresholds).check_all_thresholds(analysis, log_analysis)
CheckAllThresholds ==
    /\ pc = "summarized"
    /\ LET r == check_all_thresholds(thresholds, analysis, log_analysis)
       IN  /\ violations' = r.ret
           /\ raised' = r.raised
           /\ pc' = IF r.raised = "none" THEN "checked" ELSE "failed"
    /\ UNCHANGED <<store, top, report, metrics_list, analysis, summary, thresholds, log_analysis,
                   candidates, recommendations, values, trend>>

\* a variant that consumes the violation list it is given
GenerateRecommendations_ConsumesViolations ==
    /\ pc = "checked"
    /\ LET r == generate_recommendations(analysis, violations, log_analysis)
       IN  /\ candidates' = AllRecommendations(analysis, violations, log_analysis).ret
           /\ recommendations' = r.ret
           /\ raised' = r.raised
           /\ pc' = IF r.raised = "none" THEN "done" ELSE "failed"
    /\ violations' = <<>>
    /\ UNCHANGED <<store, top, report, metrics_list, analysis, summary, thresholds, log_analysis,
                   values, trend>>

\* recommendations = rec_engine.generate_recommendations(analysis, violations, log_analysis)
GenerateRecommendations ==
    /\ pc = "checked"
    /\ LET r == generate_recommendations(analysis, violations, log_analysis)
       IN  /\ candidates' = AllRecommendations(analysis, violations, log_analysis).ret
           /\ recommendations' = r.ret
           /\ raised' = r.raised
           /\ pc' = IF r.raised = "none" THEN "done" ELSE "failed"
    /\ UNCHANGED <<store, top, report, metrics_list, analysis, summary, thresholds, log_analysis,
                   violations, values, trend>>

Next ==
    \/ AnalyzeMonthlyMetrics
    \/ GetSummaryStatistics
    \/ CheckAllThresholds
    \/ GenerateRecommendations

Spec == Init /\ [][Next]_vars

-----------------------------------------------------------------------------
(* check_all_thresholds on any analysis and any threshold configuration *)

\* the longest series behind a statistic of an analysis given to the checker
MaxSamples == 2

\* the readings those series are made of
Percentages == {Num(0), Num(80), Num(95), Num(96), Num(100)}

SeriesUpTo(n) == UNION {[1..k -> Percentages] : k \in 0..n}

Restrict(d, keys) == [k \in keys |-> d[k]]

\* one family of TypicalThresholds with any subset of its limits, or of its
\* critical / warning sections, left out
FamilyLimits(family) ==
    LET full == TypicalThresholds[family]
    IN  {[critical |-> Restrict(full.critical, c),
          warning |-> Restrict(full.warning, w)] :
             c \in SUBSET DOMAIN full.critical, w \in SUBSET DOMAIN full.warning}
        \cup {Restrict(full, sections) : sections \in SUBSET {"critical", "warning"}}

\* TypicalThresholds with one family sparse, or missing altogether
SparseThresholds(family) ==
    {[TypicalThresholds EXCEPT ![family] = limits] : limits \in FamilyLimits(family)}
    \cup {Without(TypicalThresholds, family)}

\* an analysis whose statistics stay below every limit, also the default one
QuietAnalysis == analyze_monthly_metrics(<<Reading(1)>>)

StatsOf(series) ==
    IF Len(series) > 1
    THEN [usage_percent |-> _calculate_stats(series),
          trend |-> _analyze_trend(series)]
    ELSE [usage_percent |-> _calculate_stats(series)]

\* the analysis of one family, the other families quiet
CpuCase(series) ==
    [QuietAnalysis EXCEPT !.cpu.usage = _calculate_stats(series)]

MemoryCase(ram, swap) ==
    [QuietAnalysis EXCEPT !.memory.ram = StatsOf(ram),
                          !.memory.swap = StatsOf(swap)]

DiskCase(series) ==
    [QuietAnalysis EXCEPT !.disk =
        [i \in 1..Len(series) |->
            <<IF i = 1 THEN <<"/">> ELSE <<"/", "home">>,
              StatsOf(<<series[i]>>)>>]]

\* a configuration that also names a warning limit for kernel errors
KernelWarningThresholds ==
    [TypicalThresholds EXCEPT
        !.logs.warning = [error_count |-> Num(50), kernel_errors |-> Num(5)]]

LogCases ==
    {LogSummary(t, k, 0) : t \in {0, 50, 100, 101}, k \in {0, 10, 11}}
    \cup {EmptyDict, [summary |-> EmptyDict]}

\* one family's statistics and limits vary, the other families stay quiet
InitThreshold ==
    /\ pc = "summarized"
    /\ metrics_list = <<>>
    /\ \/ \E series \in SeriesUpTo(MaxSamples), th \in SparseThresholds("cpu") :
              /\ analysis = CpuCase(series)
              /\ thresholds = th
              /\ log_analysis = NoLogs
       \/ \E ram \in SeriesUpTo(MaxSamples), swap \in SeriesUpTo(1),
             th \in SparseThresholds("memory") :
              /\ analysis = MemoryCase(ram, swap)
              /\ thresholds = th
              /\ log_analysis = NoLogs
       \/ \E series \in SeriesUpTo(MaxSamples), th \in SparseThresholds("disk") :
              /\ analysis = DiskCase(series)
              /\ thresholds = th
              /\ log_analysis = NoLogs
       \/ \E logs \in LogCases,
             th \in SparseThresholds("logs") \cup {KernelWarningThresholds} :
              /\ analysis = QuietAnalysis
              /\ thresholds = th
              /\ log_analysis = logs
    /\ summary = EmptyDict
    /\ violations = <<>>
    /\ candidates = <<>>
    /\ recommendations = <<>>
    /\ raised = "none"
    /\ report = NoReport
    /\ StoreUnused
    /\ TopUnused
    /\ values = <<>>
    /\ trend = "none"

SpecThreshold == InitThreshold /\ [][CheckAllThresholds]_vars

-----------------------------------------------------------------------------
(* generate_recommendations and _prioritize_recommendations on any input *)

\* the longest violation list given to generate_recommendations
MaxViolations == 3

\* a violation as check_all_thresholds builds it, or as a caller might
Violation(metric, severity) ==
    [metric |-> metric, severity |-> severity, value |-> Num(96),
     threshold |-> Num(95),
     message |-> [text |-> metric \o <<"exceeds", severity>>,
                  value |-> Num(96), threshold |-> Num(95)]]

ViolationInputs ==
    {Violation(<<"CPU", "Average", "Usage">>, "critical"),
     Violation(<<"CPU", "Average", "Usage">>, "warning"),
     Violation(<<"CPU", "Maximum", "Usage">>, "warning"),
     Violation(<<"RAM", "Average", "Usage">>, "critical"),
     Violation(<<"SWAP", "Average", "Usage">>, "warning"),
     Violation(<<"Disk", "Usage", "(", "/", ")">>, "critical"),
     Violation(<<"Total", "Log", "Errors">>, "warning"),
     Violation(<<"Kernel", "Errors">>, "warning"),
     Violation(<<"Network", "Latency">>, "critical"),
     Violation(<<"Disk", "Usage", "(", "/", ")">>, "info"),
     Without(Violation(<<"RAM", "Average", "Usage">>, "critical"), "severity"),
     EmptyDict}

\* an analysis with increasing RAM and disk trends above their averages
TrendingAnalysis == analyze_monthly_metrics([d \in 1..3 |-> Reading(d)])

\* the longest list given to _prioritize_recommendations
MaxCandidates == 3

\* recommendations as any caller of _prioritize_recommendations may build them
Candidate(title, priority, description) ==
    [category |-> "CPU", priority |-> priority, title |-> title,
     description |-> [text |-> description, value |-> None, threshold |-> None],
     actions |-> <<>>]

CandidateInputs ==
    {Candidate(t, p, <<"first">>) :
        t \in {<<"A">>, <<"B">>, <<"C">>},
        p \in {"critical", "high", "medium", "warning"}}
    \cup {Candidate(<<"A">>, "high", <<"second">>),
          Candidate(<<"B">>, "low", <<"first">>),
          Without(Candidate(<<"C">>, "medium", <<"first">>), "priority")}

\* the trend of one family: its label, or absent, and its mean usage at the
\* limit or just above it
TrendLabels == {"increasing", "decreasing", "absent"}

TrendChoices(limit) ==
    {<<label, Num(mean)>> : label \in TrendLabels, mean \in {limit, limit + 1}}

\* the statistics of one family with the mean and the label of choice
Trended(stats, key, choice) ==
    LET s == [stats EXCEPT ![key].mean = choice[2]]
    IN  IF choice[1] = "absent" THEN s ELSE s @@ [trend |-> choice[1]]

\* an analysis with the chosen trends; SWAP always rises above every limit
TrendCase(cpu, ram, root, home) ==
    [QuietAnalysis EXCEPT
        !.cpu = Trended(@, "usage", cpu),
        !.memory.ram = Trended(@, "usage_percent", ram),
        !.memory.swap = Trended(@, "usage_percent", <<"increasing", Num(70)>>),
        !.disk = [i \in 1..2 |->
                     <<QuietAnalysis.disk[i][1],
                       Trended(QuietAnalysis.disk[i][2], "usage_percent",
                               IF i = 1 THEN root ELSE home)>>]]

InitGenerate ==
    /\ pc = "checked"
    /\ violations \in UNION {[1..n -> ViolationInputs] : n \in 0..MaxViolations}
    /\ \E in \in {[an |-> QuietAnalysis, logs |-> NoLogs],
                  [an |-> TrendingAnalysis, logs |-> LogSummary(60, 12, 11)]} :
           /\ analysis = in.an
           /\ log_analysis = in.logs
    /\ candidates = <<>>

\* no violation, no logs: the recommendations come from the trends alone
InitFromTrends ==
    /\ pc = "checked"
    /\ violations = <<>>
    /\ \E cpu \in TrendChoices(CpuTrendLimit), ram \in TrendChoices(RamTrendLimit),
          root \in TrendChoices(DiskTrendLimit), home \in TrendChoices(DiskTrendLimit) :
           analysis = TrendCase(cpu, ram, root, home)
    /\ log_analysis = NoLogs
    /\ candidates = <<>>

\* log summaries with the counts at, below and above the limits of the
\* recommendations, and no summary at all
AdviceLogs ==
    {LogSummary(0, kernel, security) :
        kernel \in {0, KernelErrorsLimit, KernelErrorsLimit + 1},
        security \in {0, SecurityEventsLimit, SecurityEventsLimit + 1}}
    \cup {NoLogs, EmptyDict, [summary |-> EmptyDict]}

\* no violation, no trend: the recommendations come from the logs alone
InitFromLogs ==
    /\ pc = "checked"
    /\ violations = <<>>
    /\ analysis = QuietAnalysis
    /\ log_analysis \in AdviceLogs
    /\ candidates = <<>>

InitPrioritize ==
    /\ pc = "unsorted"
    /\ violations = <<>>
    /\ analysis = EmptyDict
    /\ log_analysis = NoLogs
    /\ candidates \in UNION {[1..n -> CandidateInputs] : n \in 0..MaxCandidates}

InitRecommend ==
    /\ InitGenerate \/ InitFromTrends \/ InitFromLogs \/ InitPrioritize
    /\ metrics_list = <<>>
    /\ thresholds = TypicalThresholds
    /\ summary = EmptyDict
    /\ recommendations = <<>>
    /\ raised = "none"
    /\ report = NoReport
    /\ StoreUnused
    /\ TopUnused
    /\ values = <<>>
    /\ trend = "none"

\* recommendations = self._prioritize_recommendations(candidates)
PrioritizeRecommendations ==
    /\ pc = "unsorted"
    /\ recommendations' = _prioritize_recommendations(candidates)
    /\ pc' = "prioritized"
    /\ UNCHANGED <<store, top, report, metrics_list, analysis, summary, thresholds, log_analysis,
                   violations, candidates, raised, values, trend>>

\* the counts asked for: none, more than there is, and a negative one
Counts == (-1)..(MaxCandidates + 1)

\* top_recommendations = self.get_top_recommendations(recommendations, count),
\* or without the count
GetTopRecommendations ==
    /\ pc \in {"done", "prioritized"}
    /\ \/ \E n \in Counts :
             /\ count' = n
             /\ top_recommendations' = get_top_recommendations(recommendations, n)
       \/ /\ count' = DefaultCount
          /\ top_recommendations' = get_top_recommendations(recommendations, DefaultCount)
    /\ pc' = "top"
    /\ UNCHANGED <<store, report, metrics_list, analysis, summary, thresholds, log_analysis,
                   violations, candidates, recommendations, raised, values, trend>>

NextRecommend ==
    GenerateRecommendations \/ PrioritizeRecommendations \/ GetTopRecommendations

SpecRecommend == InitRecommend /\ [][NextRecommend]_vars

-----------------------------------------------------------------------------
(* _analyze_trend on any series *)

\* the longest series classified
MaxTrendLen == 3

TrendReadings == {Num(-101), Num(-100), Num(-1), Num(0), Num(1), Num(100), Num(101)}

InitTrend ==
    /\ pc = "series"
    /\ values \in UNION {[1..n -> TrendReadings] : n \in 0..MaxTrendLen}
    /\ trend = "none"
    /\ metrics_list = <<>>
    /\ analysis = EmptyDict
    /\ summary = EmptyDict
    /\ thresholds = TypicalThresholds
    /\ log_analysis = NoLogs
    /\ violations = <<>>
    /\ candidates = <<>>
    /\ recommendations = <<>>
    /\ raised = "none"
    /\ report = NoReport
    /\ StoreUnused
    /\ TopUnused

\* trend = self._analyze_trend(values)
AnalyzeTrend ==
    /\ pc = "series"
    /\ trend' = _analyze_trend(values)
    /\ pc' = "classified"
    /\ UNCHANGED <<store, top, report, metrics_list, analysis, summary, thresholds, log_analysis,
                   violations, candidates, recommendations, raised, values>>

SpecTrend == InitTrend /\ [][AnalyzeTrend]_vars

-----------------------------------------------------------------------------
(* _calculate_stats on any series *)

\* the longest series summarized
MaxStatLen == 3

\* floats of few and of MantissaBits (and one more) significant bits
StatReadings ==
    {Num(-1), Num(0), Num(10), Num(30), Rat(1369, 16), Rat(2733, 32), Num(100)}

InitStats ==
    /\ pc = "values"
    /\ values \in UNION {[1..n -> StatReadings] : n \in 0..MaxStatLen}
    /\ summary = EmptyDict
    /\ trend = "none"
    /\ metrics_list = <<>>
    /\ analysis = EmptyDict
    /\ thresholds = TypicalThresholds
    /\ log_analysis = NoLogs
    /\ violations = <<>>
    /\ candidates = <<>>
    /\ recommendations = <<>>
    /\ raised = "none"
    /\ report = NoReport
    /\ StoreUnused
    /\ TopUnused

\* stats = self._calculate_stats(values)
CalculateStats ==
    /\ pc = "values"
    /\ summary' = _calculate_stats(values)
    /\ pc' = "computed"
    /\ UNCHANGED <<store, top, report, metrics_list, analysis, thresholds, log_analysis, violations,
                   candidates, recommendations, raised, values, trend>>

SpecStats == InitStats /\ [][CalculateStats]_vars

-----------------------------------------------------------------------------
(* main.generate_report: the pipeline between the storage and the PDF *)

\* metrics_list = data_store.load_month_metrics(year, month) has returned; the
\* log summary is the one analyze_all_logs will return
InitReport ==
    /\ pc = "loaded"
    /\ \E f \in ChoicesOver(CommonFailures, MaxDays) :
           metrics_list = SnapshotList(f)
    /\ log_analysis \in {LogSummary(0, 0, 0), LogSummary(60, 12, 11)}
    /\ thresholds = TypicalThresholds
    /\ analysis = EmptyDict
    /\ summary = EmptyDict
    /\ violations = <<>>
    /\ candidates = <<>>
    /\ recommendations = <<>>
    /\ raised = "none"
    /\ report = NoReport
    /\ StoreUnused
    /\ TopUnused
    /\ values = <<>>
    /\ trend = "none"

\* ReturnIfNoMetrics going on to the analysis with an empty list
ReturnIfNoMetrics_Continue ==
    /\ pc = "loaded"
    /\ pc' = "start"
    /\ UNCHANGED <<store, top, report, metrics_list, analysis, summary, thresholds,
                   log_analysis, violations, candidates, recommendations,
                   raised, values, trend>>

\* if not metrics_list: return False
ReturnIfNoMetrics ==
    /\ pc = "loaded"
    /\ IF metrics_list = <<>>
       THEN /\ pc' = "returned"
            /\ report' = [report EXCEPT !.returned = "False"]
       ELSE /\ pc' = "start"
            /\ report' = report
    /\ UNCHANGED <<store, top, metrics_list, analysis, summary, thresholds, log_analysis,
                   violations, candidates, recommendations, raised, values, trend>>

\* charts = {...}: three charts from metrics_list and the disk analysis
BuildCharts ==
    /\ pc = "done"
    /\ report' = [report EXCEPT !.charts = TRUE]
    /\ pc' = "charts_built"
    /\ UNCHANGED <<store, top, metrics_list, analysis, summary, thresholds, log_analysis,
                   violations, candidates, recommendations, raised, values, trend>>

\* tables = {...}: eight tables from the summary, the analysis and the lists
BuildTables ==
    /\ pc = "charts_built"
    /\ report' = [report EXCEPT !.tables = TRUE]
    /\ pc' = "tables_built"
    /\ UNCHANGED <<store, top, metrics_list, analysis, summary, thresholds, log_analysis,
                   violations, candidates, recommendations, raised, values, trend>>

\* pdf_gen.create_complete_report(...); return True.  Writing the file may
\* fail (the directory, the disk), which raises.
GeneratePdf ==
    /\ pc = "tables_built"
    /\ \/ /\ report' = [report EXCEPT !.pdf = TRUE, !.returned = "True"]
          /\ pc' = "returned"
          /\ raised' = raised
       \/ /\ report' = report
          /\ pc' = "failed"
          /\ raised' = "OSError"
    /\ UNCHANGED <<store, top, metrics_list, analysis, summary, thresholds, log_analysis,
                   violations, candidates, recommendations, values, trend>>

\* except Exception as e: ... return False
ReturnFalseOnError ==
    /\ pc = "failed"
    /\ report' = [report EXCEPT !.returned = "False"]
    /\ pc' = "returned"
    /\ UNCHANGED <<store, top, metrics_list, analysis, summary, thresholds, log_analysis,
                   violations, candidates, recommendations, raised, values, trend>>

NextReport ==
    \/ ReturnIfNoMetrics
    \/ AnalyzeMonthlyMetrics
    \/ GetSummaryStatistics
    \/ CheckAllThresholds
    \/ GenerateRecommendations
    \/ BuildCharts
    \/ BuildTables
    \/ GeneratePdf
    \/ ReturnFalseOnError

SpecReport == InitReport /\ [][NextReport]_vars

-----------------------------------------------------------------------------
(* check_all_thresholds followed by generate_recommendations, with every
   limit configured and several families and mountpoints breaching at once *)

\* mountpoints, among them directories named after the other families
MountNames ==
    {<<"/">>, <<"/", "home">>, <<"/", "CPU">>, <<"/", "RAM">>, <<"/", "SWAP">>}

\* an average usage that is skipped, one between the warning and the critical
\* limit of every family, and one above the critical limit
Levels == {Num(0), Num(80), Num(95)}

\* the analysis of a month with two mountpoints
AdviseCase(cpu, ram, first, second, firstUsage, secondUsage) ==
    [QuietAnalysis EXCEPT
        !.cpu.usage = _calculate_stats(cpu),
        !.memory.ram = StatsOf(<<ram>>),
        !.disk = << <<first, StatsOf(<<firstUsage>>)>>,
                    <<second, StatsOf(<<secondUsage>>)>> >>]

InitAdvise ==
    /\ pc = "summarized"
    /\ metrics_list = <<>>
    /\ \E cpu \in {<<Num(0)>>, <<Num(80)>>, <<Num(80), Num(96)>>},
          ram \in {Num(0), Num(95)},
          first \in MountNames, second \in MountNames,
          firstUsage \in Levels, secondUsage \in Levels :
           /\ first # second
           /\ analysis = AdviseCase(cpu, ram, first, second, firstUsage, secondUsage)
    /\ log_analysis \in {NoLogs, LogSummary(101, 0, 0)}
    /\ thresholds = TypicalThresholds
    /\ summary = EmptyDict
    /\ violations = <<>>
    /\ candidates = <<>>
    /\ recommendations = <<>>
    /\ raised = "none"
    /\ report = NoReport
    /\ StoreUnused
    /\ TopUnused
    /\ values = <<>>
    /\ trend = "none"

NextAdvise == CheckAllThresholds \/ GenerateRecommendations

SpecAdvise == InitAdvise /\ [][NextAdvise]_vars

-----------------------------------------------------------------------------
(* DataStore: one JSON file per day under <data_dir>/<year>/<month>/ *)

\* the months the dates of the model lie in: <<year, month, days>>
Horizon == << <<2025, 12, 31>>, <<2026, 1, 31>>, <<2026, 2, 28>>, <<2026, 3, 31>> >>

\* the dates <<year, month, day>> at which something happens
Dates ==
    {<<2025, 12, 31>>, <<2026, 1, 9>>, <<2026, 1, 10>>, <<2026, 1, 31>>,
     <<2026, 3, 31>>}

\* the retention periods configured
RetentionChoices == {1, 2, 12}

RECURSIVE DaysBefore(_)
DaysBefore(i) == IF i = 1 THEN 0 ELSE DaysBefore(i - 1) + Horizon[i - 1][3]

\* the days from the start of the horizon to date: what timedelta counts
Ordinal(date) ==
    LET i == CHOOSE k \in 1..Len(Horizon) :
                 Horizon[k][1] = date[1] /\ Horizon[k][2] = date[2]
    IN  DaysBefore(i) + date[3]

\* the day and the month without the padding
Format02_Unpadded(n) == IF n < 10 THEN <<n>> ELSE <<n \div 10, n % 10>>

\* f"{n:02d}" and strftime's %m, %d: two decimal digits
Format02(n) == <<n \div 10, n % 10>>

\* int(name) of a directory name of one or two digits
ParseInt(digits) ==
    IF Len(digits) = 1 THEN digits[1] ELSE 10 * digits[1] + digits[2]

\* <data_dir>/<year>/<month:02d>/metrics_<%Y-%m-%d>.json as
\* <<year, month digits, day digits>>
FilePath(timestamp) == <<timestamp[1], Format02(timestamp[2]), Format02(timestamp[3])>>

\* the content written: the metrics, with the timestamp when they lack one
save_metrics(fs, metrics, timestamp) ==
    LET content == IF "timestamp" \in DOMAIN metrics THEN metrics
                   ELSE metrics @@ [timestamp |-> timestamp]
    IN  [p \in DOMAIN fs \cup {FilePath(timestamp)} |->
            IF p = FilePath(timestamp) THEN content ELSE fs[p]]

\* the order of strings: digit by digit, a prefix first
RECURSIVE LexLess(_, _)
LexLess(a, b) ==
    IF a = <<>> THEN b # <<>>
    ELSE IF b = <<>> THEN FALSE
    ELSE IF a[1] # b[1] THEN a[1] < b[1]
    ELSE LexLess(Tail(a), Tail(b))

\* sorted(year_month_dir.glob('metrics_*.json')), then each file's content
RECURSIVE LoadSorted(_, _)
LoadSorted(fs, paths) ==
    IF paths = {} THEN <<>>
    ELSE LET first == CHOOSE p \in paths :
                           \A q \in paths \ {p} : LexLess(p[3], q[3])
         IN  <<fs[first]>> \o LoadSorted(fs, paths \ {first})

load_month_metrics(fs, year, month) ==
    LoadSorted(fs, {p \in DOMAIN fs : p[1] = year /\ p[2] = Format02(month)})

\* every month directory whose first day lies before
\* now - timedelta(days=retention_months * 30) is removed with its files;
\* midnight: now is 00:00:00 sharp
cleanup_old_data(fs, now, midnight, months) ==
    LET cutoff == Ordinal(now) - months * 30
        old(p) == LET dir_date == Ordinal(<<p[1], ParseInt(p[2]), 1>>)
                  IN  dir_date < cutoff \/ (dir_date = cutoff /\ ~midnight)
    IN  [p \in {q \in DOMAIN fs : ~old(q)} |-> fs[p]]

\* the save_metrics calls of one run of the model
MaxSaves == 2

\* the n-th metrics collected, as collect_all_metrics stamps them or bare
Collected(n, stamped, now) ==
    IF stamped THEN [reading |-> n, timestamp |-> now] ELSE [reading |-> n]

InitStore ==
    /\ pc = "idle"
    /\ files = EmptyDict
    /\ clock \in Dates
    /\ retention_months \in RetentionChoices
    /\ asked = None
    /\ saves = <<>>
    /\ metrics_list = <<>>
    /\ analysis = EmptyDict
    /\ summary = EmptyDict
    /\ thresholds = TypicalThresholds
    /\ log_analysis = NoLogs
    /\ violations = <<>>
    /\ candidates = <<>>
    /\ recommendations = <<>>
    /\ raised = "none"
    /\ report = NoReport
    /\ TopUnused
    /\ values = <<>>
    /\ trend = "none"

pipeline == <<analysis, summary, thresholds, log_analysis, violations, candidates,
              recommendations, raised, values, trend, report, top>>

\* data_store.save_metrics(metrics, timestamp), timestamp defaulting to now
SaveMetrics ==
    /\ pc = "idle"
    /\ Len(saves) < MaxSaves
    /\ \E timestamp \in Dates, stamped \in BOOLEAN :
           LET metrics == Collected(Len(saves) + 1, stamped, clock)
           IN  /\ files' = save_metrics(files, metrics, timestamp)
               /\ saves' = Append(saves, [timestamp |-> timestamp,
                                          metrics |-> metrics])
    /\ pc' = "idle"
    /\ UNCHANGED <<pipeline, metrics_list, clock, retention_months, asked>>

\* time passes
Tick ==
    /\ pc = "idle"
    /\ \E later \in Dates :
           /\ Ordinal(later) > Ordinal(clock)
           /\ clock' = later
    /\ UNCHANGED <<pipeline, pc, metrics_list, files, retention_months, asked, saves>>

\* metrics_list = data_store.load_month_metrics(year, month)
LoadMonthMetrics ==
    /\ pc = "idle"
    /\ \E i \in 1..Len(Horizon) :
           /\ asked' = <<Horizon[i][1], Horizon[i][2]>>
           /\ metrics_list' = load_month_metrics(files, Horizon[i][1], Horizon[i][2])
    /\ pc' = "loaded"
    /\ UNCHANGED <<pipeline, files, clock, retention_months, saves>>

\* data_store.cleanup_old_data()
CleanupOldData ==
    /\ pc = "idle"
    /\ \E midnight \in BOOLEAN :
           files' = cleanup_old_data(files, clock, midnight, retention_months)
    /\ pc' = "idle"
    /\ UNCHANGED <<pipeline, metrics_list, clock, retention_months, asked, saves>>

\* if not metrics_list: return False; otherwise
\* analysis = analyzer.analyze_monthly_metrics(metrics_list)
AnalyzeLoaded ==
    /\ pc = "loaded"
    /\ metrics_list # <<>>
    /\ analysis' = analyze_monthly_metrics(metrics_list)
    /\ pc' = "analyzed"
    /\ UNCHANGED <<store, top, report, metrics_list, summary, thresholds, log_analysis,
                   violations, candidates, recommendations, raised, values, trend>>

\* retention_months: int = 12
DefaultRetention == 12

\* saves, then a month loaded and analysed as generate_report does; no cleanup
NextSave == SaveMetrics \/ Tick \/ LoadMonthMetrics \/ AnalyzeLoaded

InitSave ==
    /\ InitStore
    /\ retention_months = DefaultRetention

SpecSave == InitSave /\ [][NextSave]_vars

\* saves and cleanups, as collect_metrics makes them run after run
NextCollect == SaveMetrics \/ Tick \/ CleanupOldData

SpecCollect == InitStore /\ [][NextCollect]_vars

-----------------------------------------------------------------------------
(* Properties of the threshold checker, under SpecThreshold *)

\* the value at a path of keys of nested dictionaries, None where a key is missing
RECURSIVE PathValue(_, _)
PathValue(d, path) ==
    IF path = <<>> THEN d
    ELSE IF path[1] \in DOMAIN d THEN PathValue(d[path[1]], Tail(path))
    ELSE None

\* the limit a violation was checked against: family and key by metric label
LimitPath(violation) ==
    LET metric == violation.metric
        where == CASE metric = <<"CPU", "Average", "Usage">> -> <<"cpu", "avg_usage">>
                   [] metric = <<"CPU", "Maximum", "Usage">> -> <<"cpu", "max_usage">>
                   [] metric = <<"RAM", "Average", "Usage">> -> <<"memory", "ram_usage">>
                   [] metric = <<"SWAP", "Average", "Usage">> -> <<"memory", "swap_usage">>
                   [] metric = <<"Total", "Log", "Errors">> -> <<"logs", "error_count">>
                   [] metric = <<"Kernel", "Errors">> -> <<"logs", "kernel_errors">>
                   [] OTHER -> <<"disk", "usage">>
    IN  <<where[1], violation.severity, where[2]>>

Checked == pc \in {"checked", "failed"}

\* C1: with any subset of the limit keys or sections absent, check_all_thresholds
\* completes without raising, and every violation it returns was checked against
\* a limit that is configured (an absent limit never triggers)
C1_AbsentLimitNeverTriggers ==
    Checked =>
        /\ raised = "none"
        /\ \A i \in 1..Len(violations) :
               PathValue(thresholds, LimitPath(violations[i])) # None

ViolationsOf(metric) ==
    SelectSeq(violations, LAMBDA v : v.metric = metric)

\* a CPU statistic above both of its configured limits yields exactly two
\* violations with its label, one critical and one warning
BothTiersFire(stat, key, metric) ==
    LET value == PathValue(analysis, <<"cpu", "usage", stat>>)
        critical == PathValue(thresholds, <<"cpu", "critical", key>>)
        warning == PathValue(thresholds, <<"cpu", "warning", key>>)
    IN  (/\ value # None /\ critical # None /\ warning # None
         /\ RatGt(value, critical) /\ RatGt(value, warning))
        => /\ raised = "none"
           /\ Len(ViolationsOf(metric)) = 2
           /\ {ViolationsOf(metric)[i].severity : i \in 1..2} = {"critical", "warning"}

\* C5: the critical and the warning tier are checked independently for the CPU
\* mean and the CPU max; a statistic above both limits gives two violations
C5_BothTiersFire ==
    Checked =>
        /\ BothTiersFire("mean", "avg_usage", <<"CPU", "Average", "Usage">>)
        /\ BothTiersFire("max", "max_usage", <<"CPU", "Maximum", "Usage">>)

\* C6: every violation records a value strictly greater than its threshold, so
\* a statistic equal to its limit produces no violation
C6_ViolationExceedsLimit ==
    \A i \in 1..Len(violations) :
        RatGt(violations[i].value, violations[i].threshold)

-----------------------------------------------------------------------------
(* Properties of the recommendation engine, under SpecRecommend *)

Title(rec) == DictGet(rec, "title", <<>>)

Prioritized == pc \in {"done", "prioritized"}

\* the position in list of the first recommendation titled t
FirstWithTitle(list, t) ==
    CHOOSE i \in 1..Len(list) :
        /\ Title(list[i]) = t
        /\ \A j \in 1..(i - 1) : Title(list[j]) # t

\* C2: the returned list holds exactly one recommendation per title of the
\* concatenation (violation-, trend-, then log-derived), the first with that title
C2_FirstPerTitleSurvives ==
    Prioritized =>
        /\ \A i, j \in 1..Len(recommendations) :
               i # j => Title(recommendations[i]) # Title(recommendations[j])
        /\ \A i \in 1..Len(recommendations) :
               /\ \E k \in 1..Len(candidates) :
                      Title(candidates[k]) = Title(recommendations[i])
               /\ recommendations[i] =
                      candidates[FirstWithTitle(candidates, Title(recommendations[i]))]
        /\ \A k \in 1..Len(candidates) :
               \E i \in 1..Len(recommendations) :
                   Title(recommendations[i]) = Title(candidates[k])

\* two recommendations of one title that differ went in, the first came out
C2_Witness ==
    /\ pc = "done"
    /\ \E k, l \in 1..Len(candidates) :
           /\ k < l
           /\ Title(candidates[k]) = Title(candidates[l])
           /\ DictGet(candidates[k], "priority", "low")
                  # DictGet(candidates[l], "priority", "low")
           /\ DictGet(candidates[k], "description", NoMessage)
                  # DictGet(candidates[l], "description", NoMessage)
           /\ \E i \in 1..Len(recommendations) : recommendations[i] = candidates[k]

\* the rank of the claim: critical 0, high 1, medium 2, low and anything else 3
Rank(rec) ==
    LET priority == DictGet(rec, "priority", "low")
    IN  CASE priority = "critical" -> 0
          [] priority = "high" -> 1
          [] priority = "medium" -> 2
          [] OTHER -> 3

\* C3: the returned list is the stable sort of the deduplicated list by rank:
\* ranks never decrease, equal ranks keep the order of the concatenation, and
\* an unknown or missing priority ranks as low
C3_StableSortByRank ==
    Prioritized =>
        /\ \A i, j \in 1..Len(recommendations) :
               i < j =>
                   /\ Rank(recommendations[i]) <= Rank(recommendations[j])
                   /\ Rank(recommendations[i]) = Rank(recommendations[j]) =>
                          FirstWithTitle(candidates, Title(recommendations[i]))
                          < FirstWithTitle(candidates, Title(recommendations[j]))
        /\ Len(recommendations) =
               Cardinality({Title(candidates[k]) : k \in 1..Len(candidates)})

\* an unknown priority went behind a medium one that followed it, and two
\* recommendations of equal rank kept their order
C3_Witness ==
    /\ pc = "prioritized"
    /\ Len(candidates) = 3
    /\ DictGet(candidates[1], "priority", "low") = "warning"
    /\ DictGet(candidates[2], "priority", "low") = "medium"
    /\ DictGet(candidates[3], "priority", "low") = "medium"
    /\ recommendations = <<candidates[2], candidates[3], candidates[1]>>

\* the substrings of §4.5 that select a template
TemplateWords ==
    {<<"CPU">>, <<"RAM">>, <<"SWAP">>, <<"Disk">>, <<"Log", "Errors">>, <<"Kernel">>}

SelectsTemplate(violation) ==
    \E w \in TemplateWords : Contains(DictGet(violation, "metric", <<>>), w)

KernelTitle == <<"Kernel", "Errors", "Detected">>

\* C4: the recommendation derived from a violation has priority high when the
\* violation is critical and medium otherwise, and the Kernel template always
\* has priority critical
C4_PriorityFromSeverity ==
    pc = "done" =>
        LET selecting == SelectSeq(violations, SelectsTemplate)
        IN  /\ Len(candidates) >= Len(selecting)
            /\ \A k \in 1..Len(selecting) :
                   /\ candidates[k].description =
                          DictGet(selecting[k], "message", NoMessage)
                   /\ candidates[k].priority =
                          IF candidates[k].title = KernelTitle THEN "critical"
                          ELSE IF DictGet(selecting[k], "severity", "warning") = "critical"
                          THEN "high"
                          ELSE "medium"

\* a critical violation, a warning and a Kernel warning were all turned into
\* recommendations, of priorities high, medium and critical
C4_Witness ==
    /\ pc = "done"
    /\ Len(violations) = 3
    /\ violations[1] = Violation(<<"CPU", "Average", "Usage">>, "critical")
    /\ violations[2] = Violation(<<"Kernel", "Errors">>, "warning")
    /\ violations[3] = Violation(<<"SWAP", "Average", "Usage">>, "warning")
    /\ Len(candidates) >= 3
    /\ candidates[1].priority = "high"
    /\ candidates[2].priority = "critical"
    /\ candidates[3].priority = "medium"

-----------------------------------------------------------------------------
(* Properties of the metrics analyzer, under Spec and SpecTrend *)

\* the non-null values found at path in the snapshots of ml, in the order of ml
RECURSIVE FieldSeries(_, _)
FieldSeries(ml, path) ==
    IF ml = <<>> THEN <<>>
    ELSE LET value == PathValue(ml[1], path)
         IN  (IF value = None THEN <<>> ELSE <<value>>)
             \o FieldSeries(Tail(ml), path)

\* the numeric fields: where a snapshot holds the value, where the analysis
\* holds its statistics
NumericFields ==
    {[from |-> <<"cpu", "usage_percent">>, to |-> <<"cpu", "usage">>],
     [from |-> <<"cpu", "load_average", "1min">>,
      to |-> <<"cpu", "load_average", "1min">>],
     [from |-> <<"cpu", "load_average", "5min">>,
      to |-> <<"cpu", "load_average", "5min">>],
     [from |-> <<"cpu", "load_average", "15min">>,
      to |-> <<"cpu", "load_average", "15min">>],
     [from |-> <<"memory", "ram", "percent">>,
      to |-> <<"memory", "ram", "usage_percent">>],
     [from |-> <<"memory", "ram", "used">>,
      to |-> <<"memory", "ram", "usage_bytes">>],
     [from |-> <<"memory", "swap", "percent">>,
      to |-> <<"memory", "swap", "usage_percent">>],
     [from |-> <<"memory", "swap", "used">>,
      to |-> <<"memory", "swap", "usage_bytes">>]}

\* the fields whose series is also classified, and where the label is kept
TrendFields ==
    {[from |-> <<"cpu", "usage_percent">>, to |-> <<"cpu", "trend">>],
     [from |-> <<"memory", "ram", "percent">>, to |-> <<"memory", "ram", "trend">>],
     [from |-> <<"memory", "swap", "percent">>, to |-> <<"memory", "swap", "trend">>]}

\* C7: the series aggregated for each numeric field is the sequence of that
\* field's non-null values in input order: a missing value is left out, never
\* counted as 0, and a snapshot missing one field still gives its other fields
C7_SeriesOfNonNullValues ==
    (pc # "start" /\ metrics_list # <<>>) =>
        /\ \A f \in NumericFields :
               PathValue(analysis, f.to)
                   = _calculate_stats(FieldSeries(metrics_list, f.from))
        /\ \A f \in TrendFields :
               LET series == FieldSeries(metrics_list, f.from)
               IN  PathValue(analysis, f.to)
                       = IF Len(series) > 1 THEN _analyze_trend(series) ELSE None

\* usage [10, null, 30] was analyzed to mean 20, the loads of all three days kept
C7_Witness ==
    /\ pc = "analyzed"
    /\ Len(metrics_list) = 3
    /\ [i \in 1..3 |-> PathValue(metrics_list[i], <<"cpu", "usage_percent">>)]
           = <<Num(10), None, Num(30)>>
    /\ analysis.cpu.usage.mean = Num(20)
    /\ analysis.cpu.load_average["1min"].mean = Num(2)

\* the label of the rule: least-squares slope over indices 0..n-1 against
\* |mean| * 0.01, the comparisons cross-multiplied
ReferenceTrend(y) ==
    LET n == Len(y)
        Sx == (n * (n - 1)) \div 2
        Sxx == ((n - 1) * n * (2 * n - 1)) \div 6
        sumY == RatSum(y)
        sumXY == RatSum([i \in 1..n |-> RatMul(Num(i - 1), y[i])])
        slope == RatDiv(RatSub(RatMul(Num(n), sumXY), RatMul(Num(Sx), sumY)),
                        Num(n * Sxx - Sx * Sx))
        threshold == RatMul(RatAbs(RatDiv(sumY, Num(n))), Rat(1, 100))
    IN  IF RatLt(RatAbs(slope), threshold) THEN "stable"
        ELSE IF RatGt(slope, Num(0)) THEN "increasing"
        ELSE "decreasing"

\* C8: for every series of at least 2 points _analyze_trend returns the label
\* of the rule with threshold |mean| * 0.01: stable iff |slope| < threshold,
\* otherwise increasing iff slope > 0 and decreasing otherwise
C8_TrendFollowsReferenceRule ==
    (pc = "classified" /\ Len(values) >= 2) => trend = ReferenceTrend(values)

\* C9: _analyze_trend returns stable for every series of fewer than 2 points
\* and for every constant series, whatever the common value
C9_ConstantSeriesIsStable ==
    (/\ pc = "classified"
     /\ \A i, j \in 1..Len(values) : values[i] = values[j])
    => trend = "stable"

LogMetrics == {<<"Total", "Log", "Errors">>, <<"Kernel", "Errors">>}

-----------------------------------------------------------------------------
(* Properties of _calculate_stats, under SpecStats *)

StatFields == {"min", "max", "mean", "median", "std_sq"}

\* C11: _calculate_stats returns min, max, mean, median and std all null for
\* an empty series, and min = max = mean = median = x and std = 0 for [x]
C11_EmptyAndSingletonStats ==
    pc = "computed" =>
        /\ DOMAIN summary = StatFields
        /\ values = <<>> => \A f \in StatFields : summary[f] = None
        /\ Len(values) = 1 =>
               /\ \A f \in {"min", "max", "mean", "median"} : summary[f] = values[1]
               /\ summary.std_sq = Num(0)

\* a single reading with a full mantissa was summarized
C11_Witness ==
    /\ pc = "computed"
    /\ values = <<Rat(1369, 16)>>
    /\ summary.mean = Rat(1369, 16)
    /\ summary.std_sq = Num(0)

\* C12: for every non-empty series the summary satisfies min <= mean <= max
\* and min <= median <= max
C12_MeanAndMedianWithinRange ==
    (pc = "computed" /\ values # <<>>) =>
        /\ RatLe(summary.min, summary.mean)
        /\ RatLe(summary.mean, summary.max)
        /\ RatLe(summary.min, summary.median)
        /\ RatLe(summary.median, summary.max)

-----------------------------------------------------------------------------
(* Properties of get_summary_statistics, under Spec *)

Summarized == pc \in {"summarized", "checked", "done", "failed"}

RootMount == <<"/">>
HomeMount == <<"/", "home">>

\* the mountpoints of an analysis
Mountpoints(an) ==
    IF "disk" \in DOMAIN an
    THEN {an.disk[i][1] : i \in 1..Len(an.disk)}
    ELSE {}

\* the statistics the analysis holds for mountpoint
DiskEntry(an, mountpoint) ==
    an.disk[CHOOSE i \in 1..Len(an.disk) : an.disk[i][1] = mountpoint][2]

\* the disk summary is that of entry
SummarizesEntry(entry) ==
    /\ DOMAIN summary.disk_summary = {"avg_usage", "max_usage", "trend"}
    /\ summary.disk_summary.avg_usage = entry.usage_percent.mean
    /\ summary.disk_summary.max_usage = entry.usage_percent.max
    /\ summary.disk_summary.trend
           = IF "trend" \in DOMAIN entry THEN entry.trend ELSE "stable"

\* C13: the disk summary is taken from mountpoint "/" when the analysis has
\* it, otherwise from "/home" when the analysis has it, otherwise it is left
\* empty; no other mountpoint is ever used
C13_DiskSummaryFromRootElseHome ==
    Summarized =>
        IF RootMount \in Mountpoints(analysis)
        THEN SummarizesEntry(DiskEntry(analysis, RootMount))
        ELSE IF HomeMount \in Mountpoints(analysis)
        THEN SummarizesEntry(DiskEntry(analysis, HomeMount))
        ELSE DOMAIN summary.disk_summary = {}

\* an analysis with only /var and /home, in that order, was summarized by
\* its /home entry
C13_Witness ==
    /\ pc = "summarized"
    /\ metrics_list # <<>>
    /\ Len(analysis.disk) = 2
    /\ analysis.disk[1][1] = <<"/", "var">>
    /\ analysis.disk[2][1] = HomeMount
    /\ analysis.disk[1][2].usage_percent.mean # analysis.disk[2][2].usage_percent.mean
    /\ summary.disk_summary.avg_usage = analysis.disk[2][2].usage_percent.mean

-----------------------------------------------------------------------------
(* Properties of the whole pipeline, under Spec *)

\* C14: whatever snapshot fields are absent (cpu, usage_percent, load_average
\* and its entries, memory, ram, swap and their entries, disk, partitions and
\* partition entries), with a complete threshold configuration the pipeline
\* analyze_monthly_metrics -> check_all_thresholds -> generate_recommendations
\* completes without raising
C14_SparseInputNeverRaises ==
    /\ raised = "none"
    /\ pc # "failed"

\* the pipeline ran to its end on a month with a day without CPU data and a
\* day whose CPU usage could not be read
C14_Witness ==
    /\ pc = "done"
    /\ raised = "none"
    /\ Len(metrics_list) = 2
    /\ "cpu" \notin DOMAIN metrics_list[1]
    /\ "cpu" \in DOMAIN metrics_list[2]
    /\ "usage_percent" \notin DOMAIN metrics_list[2].cpu
    /\ analysis.cpu.usage.mean = None

-----------------------------------------------------------------------------
(* Unknown severities, under SpecRecommend *)

KnownSeverities == {"critical", "warning"}

\* C15: a violation whose severity is neither critical nor warning is not
\* rejected, and the recommendation derived from it sorts as low: it is never
\* placed before a recommendation of priority critical, high or medium
C15_UnknownSeveritySortsLast ==
    pc = "done" =>
        LET selecting == SelectSeq(violations, SelectsTemplate)
        IN  /\ raised = "none"
            /\ \A k \in 1..Len(selecting) :
                   ( /\ DictGet(selecting[k], "severity", "warning") \notin KnownSeverities
                     /\ FirstWithTitle(candidates, Title(candidates[k])) = k )
                   => \A i, j \in 1..Len(recommendations) :
                          (i < j /\ recommendations[i] = candidates[k])
                          => Rank(recommendations[j]) = 3

-----------------------------------------------------------------------------
(* Properties of generate_report, under SpecReport *)

\* C16: when the storage returns no snapshots for the month generate_report
\* builds no chart, no table and no PDF: it returns False before the analysis
\* stage, so no report is generated from an empty analysis
C16_NoReportWithoutSnapshots ==
    metrics_list = <<>> =>
        /\ pc \in {"loaded", "returned"}
        /\ report.charts = FALSE
        /\ report.tables = FALSE
        /\ report.pdf = FALSE
        /\ report.returned \in {"none", "False"}
        /\ pc = "returned" => report.returned = "False"
        /\ DOMAIN analysis = {}
        /\ DOMAIN summary = {}

\* generate_report has returned False for a month without snapshots
C16_Witness ==
    /\ metrics_list = <<>>
    /\ pc = "returned"
    /\ report.returned = "False"
    /\ report.pdf = FALSE

-----------------------------------------------------------------------------
(* The pipeline's calls as functions of their arguments, under Spec *)

-----------------------------------------------------------------------------
(* Properties of the disk section, under Spec *)

\* partition carries mountpoint
HasMount(partition, mountpoint) ==
    /\ "mountpoint" \in DOMAIN partition
    /\ partition.mountpoint = mountpoint

\* the non-empty mountpoints that appear in parts
NonEmptyMounts(parts) ==
    {parts[i].mountpoint :
        i \in {j \in 1..Len(parts) :
                  /\ "mountpoint" \in DOMAIN parts[j]
                  /\ parts[j].mountpoint \notin {None, <<>>}}}

\* the partitions of parts mounted at mountpoint, in input order
MountedAt(parts, mountpoint) ==
    SelectSeq(parts, LAMBDA p : HasMount(p, mountpoint))

\* the non-null values of key among parts, in input order
RECURSIVE PartitionSeries(_, _)
PartitionSeries(parts, key) ==
    IF parts = <<>> THEN <<>>
    ELSE LET v == DictGet(parts[1], key, None)
         IN  (IF v = None THEN <<>> ELSE <<v>>) \o PartitionSeries(Tail(parts), key)

\* C18: the disk section of an analysis has exactly one entry per distinct
\* non-empty mountpoint that appears in some snapshot, also when the partition
\* is absent from later snapshots; the statistics of an entry are those of the
\* values of the snapshots in which the partition appears; and its device and
\* fstype are those of the first snapshot, in input order, that has the
\* mountpoint
C18_OneEntryPerMountpoint ==
    (pc # "start" /\ metrics_list # <<>>) =>
        LET parts == PartitionsOf(metrics_list)
            mounts == NonEmptyMounts(parts)
        IN  /\ Len(analysis.disk) = Cardinality(mounts)
            /\ Mountpoints(analysis) = mounts
            /\ \A mp \in mounts :
                   LET mine == MountedAt(parts, mp)
                       entry == DiskEntry(analysis, mp)
                   IN  /\ entry.usage_percent
                              = _calculate_stats(PartitionSeries(mine, "percent"))
                       /\ entry.used_bytes
                              = _calculate_stats(PartitionSeries(mine, "used"))
                       /\ entry.free_bytes
                              = _calculate_stats(PartitionSeries(mine, "free"))
            /\ \A mp \in mounts :
                   LET first == MountedAt(parts, mp)[1]
                       entry == DiskEntry(analysis, mp)
                   IN  /\ entry.device = DictGet(first, "device", None)
                       /\ entry.fstype = DictGet(first, "fstype", None)

\* the month's first snapshot has / on one device and /home, its second has
\* / on another device and no /home: the analysis keeps /home with its one
\* value and reports the first device for /
C18_Witness ==
    /\ pc = "analyzed"
    /\ Len(metrics_list) = 2
    /\ Len(PartitionsOf(SubSeq(metrics_list, 1, 1))) = 2
    /\ Len(PartitionsOf(SubSeq(metrics_list, 2, 2))) = 1
    /\ DictGet(PartitionsOf(metrics_list)[1], "device", "") = "sdb1"
    /\ DictGet(PartitionsOf(metrics_list)[3], "device", "") = "sda1"
    /\ Mountpoints(analysis) = {RootMount, HomeMount}
    /\ DiskEntry(analysis, RootMount).device = "sdb1"
    /\ DiskEntry(analysis, HomeMount).usage_percent.min
           = DiskEntry(analysis, HomeMount).usage_percent.max

-----------------------------------------------------------------------------
(* Where a trend label is present, under Spec *)

HasTrend(stats) == "trend" \in DOMAIN stats

\* the label the summary shows for stats
ShownTrend(stats) == IF HasTrend(stats) THEN stats.trend ELSE "stable"

\* C19: in the analysis of a month the CPU, RAM, SWAP and each disk
\* mountpoint carry a trend label exactly when their usage-percent series has
\* at least 2 non-null points, and then the mean of that series is not null;
\* the summary shows stable where the label is absent, and its memory trend
\* is that of RAM, not that of SWAP
C19_TrendIffTwoPoints ==
    (pc # "start" /\ metrics_list # <<>>) =>
        LET cpu_usage == FieldSeries(metrics_list, <<"cpu", "usage_percent">>)
            ram_percent == FieldSeries(metrics_list, <<"memory", "ram", "percent">>)
            swap_percent == FieldSeries(metrics_list, <<"memory", "swap", "percent">>)
            parts == PartitionsOf(metrics_list)
            ram == analysis.memory.ram
            swap == analysis.memory.swap
        IN  /\ HasTrend(analysis.cpu) <=> Len(cpu_usage) >= 2
            /\ HasTrend(ram) <=> Len(ram_percent) >= 2
            /\ HasTrend(swap) <=> Len(swap_percent) >= 2
            /\ \A i \in 1..Len(analysis.disk) :
                   LET mine == MountedAt(parts, analysis.disk[i][1])
                       entry == analysis.disk[i][2]
                   IN  /\ HasTrend(entry)
                              <=> Len(PartitionSeries(mine, "percent")) >= 2
                       /\ HasTrend(entry) => entry.usage_percent.mean # None
            /\ HasTrend(analysis.cpu) => analysis.cpu.usage.mean # None
            /\ HasTrend(ram) => ram.usage_percent.mean # None
            /\ HasTrend(swap) => swap.usage_percent.mean # None
            /\ Summarized =>
                   /\ summary.cpu_summary.trend = ShownTrend(analysis.cpu)
                   /\ summary.memory_summary.trend = ShownTrend(ram)
                   /\ DOMAIN summary.disk_summary # {} =>
                          summary.disk_summary.trend =
                              ShownTrend(IF RootMount \in Mountpoints(analysis)
                                         THEN DiskEntry(analysis, RootMount)
                                         ELSE DiskEntry(analysis, HomeMount))

\* a month of two days, the RAM usage unreadable on one of them: RAM has no
\* label, SWAP has one that is not stable, the summary shows stable for memory
C19_Witness ==
    /\ pc = "summarized"
    /\ Len(metrics_list) = 2
    /\ Len(FieldSeries(metrics_list, <<"memory", "ram", "percent">>)) = 1
    /\ Len(FieldSeries(metrics_list, <<"memory", "swap", "percent">>)) = 2
    /\ ~HasTrend(analysis.memory.ram)
    /\ HasTrend(analysis.memory.swap)
    /\ analysis.memory.swap.trend # "stable"
    /\ summary.memory_summary.trend = "stable"

-----------------------------------------------------------------------------
(* What the memory check reads, under SpecThreshold *)

\* analysis with one statistic of the RAM or SWAP usage replaced by v
WithStatistic(an, part, series, stat, v) ==
    [an EXCEPT !.memory[part][series][stat] = v]

\* the statistics the memory check must not depend on
OtherStatistics ==
    {<<series, stat>> : series \in {"usage_percent"}, stat \in StatFields \ {"mean"}}
    \cup {<<"usage_bytes", stat>> : stat \in StatFields}

\* C20: the violations check_all_thresholds returns for memory depend on the
\* RAM mean and the SWAP mean only: an analysis that differs from the checked
\* one in the RAM or SWAP maximum, or in any statistic other than the mean
\* usage, gets the same outcome; and every RAM violation is one of the
\* average usage, none of the maximum
C20_MemoryCheckReadsMeansOnly ==
    Checked =>
        /\ \A part \in {"ram", "swap"}, other \in OtherStatistics,
              v \in Percentages \cup {None} :
               LET r == check_all_thresholds(
                            thresholds,
                            WithStatistic(analysis, part, other[1], other[2], v),
                            log_analysis)
               IN  /\ r.raised = raised
                   /\ r.ret = violations
        /\ \A i \in 1..Len(violations) :
               violations[i].metric[1] = "RAM" =>
                   /\ violations[i].metric = <<"RAM", "Average", "Usage">>
                   /\ violations[i].value = analysis.memory.ram.usage_percent.mean

\* the RAM maximum is above the critical limit and the RAM mean below the
\* warning limit: the check has returned without any RAM violation
C20_Witness ==
    /\ pc = "checked"
    /\ thresholds = TypicalThresholds
    /\ analysis.memory.ram.usage_percent.mean # None
    /\ RatGt(analysis.memory.ram.usage_percent.max,
             thresholds.memory.critical.ram_usage)
    /\ RatLt(analysis.memory.ram.usage_percent.mean,
             thresholds.memory.warning.ram_usage)
    /\ \A i \in 1..Len(violations) : violations[i].metric[1] # "RAM"

-----------------------------------------------------------------------------
(* The disk check, under SpecThreshold *)

\* the metric label of the disk violations of mountpoint
DiskLabel(mountpoint) == <<"Disk", "Usage", "(">> \o mountpoint \o <<")">>

\* the violations of severity tier among vs
OfTier(vs, tier) == SelectSeq(vs, LAMBDA v : v.severity = tier)

\* C21: check_all_thresholds goes through every mountpoint of the analysis;
\* a mountpoint whose average usage is 0 or null gets no disk violation
\* whatever the limits, and every other mountpoint is held against the
\* critical and against the warning usage limit, each on its own: a tier
\* whose limit the average exceeds is reported, a tier whose limit it stays
\* below is not
C21_DiskCheckedPerMountpoint ==
    Checked =>
        \A i \in 1..Len(analysis.disk) :
            LET avg == analysis.disk[i][2].usage_percent.mean
                mine == ViolationsOf(DiskLabel(analysis.disk[i][1]))
            IN  IF avg = None \/ avg = Num(0)
                THEN mine = <<>>
                ELSE \A tier \in {"critical", "warning"} :
                         LET limit == PathValue(thresholds, <<"disk", tier, "usage">>)
                         IN  limit # None =>
                                 /\ RatGt(avg, limit) => Len(OfTier(mine, tier)) = 1
                                 /\ RatLt(avg, limit) => OfTier(mine, tier) = <<>>

-----------------------------------------------------------------------------
(* The log check, under SpecThreshold *)

TotalLabel == <<"Total", "Log", "Errors">>
KernelLabel == <<"Kernel", "Errors">>

\* the count at path of the provided log summary, 0 where it is missing
LogCount(path) ==
    LET v == PathValue(log_analysis, path) IN IF v = None THEN Num(0) ELSE v

\* label has one violation of tier when number is above the limit at key, and
\* none when the limit is absent or number is below it
ComparedTo(label, number, tier, key) ==
    LET limit == PathValue(thresholds, <<"logs", tier, key>>)
        found == OfTier(ViolationsOf(label), tier)
    IN  /\ limit = None => found = <<>>
        /\ limit # None =>
               /\ RatGt(number, limit) => Len(found) = 1
               /\ RatLt(number, limit) => found = <<>>

\* C22: without a log summary no log violation is returned; with one, the
\* total of errors is held against the critical and against the warning
\* error_count limit and the kernel error count against the critical
\* kernel_errors limit only: no Kernel Errors violation has severity warning,
\* also when the configuration names a warning limit for kernel errors
C22_KernelErrorsOnlyCritical ==
    Checked =>
        /\ ~LogProvided(log_analysis) =>
               /\ ViolationsOf(TotalLabel) = <<>>
               /\ ViolationsOf(KernelLabel) = <<>>
        /\ LogProvided(log_analysis) =>
               /\ raised = "none"
               /\ ComparedTo(TotalLabel, LogCount(<<"summary", "total_errors">>),
                             "critical", "error_count")
               /\ ComparedTo(TotalLabel, LogCount(<<"summary", "total_errors">>),
                             "warning", "error_count")
               /\ ComparedTo(KernelLabel, LogCount(<<"kernel_log", "error_count">>),
                             "critical", "kernel_errors")
        /\ OfTier(ViolationsOf(KernelLabel), "warning") = <<>>

\* the kernel error count is above the critical limit and above a configured
\* warning limit: the one Kernel Errors violation is the critical one
C22_Witness ==
    /\ pc = "checked"
    /\ thresholds = KernelWarningThresholds
    /\ LogProvided(log_analysis)
    /\ RatGt(LogCount(<<"kernel_log", "error_count">>),
             thresholds.logs.warning.kernel_errors)
    /\ Len(ViolationsOf(KernelLabel)) = 1
    /\ ViolationsOf(KernelLabel)[1].severity = "critical"

-----------------------------------------------------------------------------
(* The recommendations drawn from the trends, under SpecRecommend *)

CpuTrendTitle == <<"Increasing", "CPU", "Usage", "Trend">>
RamTrendTitle == <<"Increasing", "Memory", "Usage", "Trend">>
DiskTrendTitle(mountpoint) ==
    <<"Increasing", "Disk", "Usage", "Trend", "(">> \o mountpoint \o <<")">>

\* the recommendations of recs titled title
Titled(recs, title) == SelectSeq(recs, LAMBDA rec : Title(rec) = title)

\* stats carries the label increasing and the mean of usage is above limit
Rising(stats, usage, limit) ==
    /\ HasTrend(stats)
    /\ stats.trend = "increasing"
    /\ usage.mean # None
    /\ RatGt(usage.mean, Num(limit))

\* recs holds one recommendation titled title if expected, none otherwise
OneIff(recs, title, expected) ==
    Len(Titled(recs, title)) = IF expected THEN 1 ELSE 0

\* C23: the recommendations drawn from the trends are one for the CPU iff
\* its trend is increasing and its mean above 50, one for the RAM iff its
\* trend is increasing and its mean above 60, one per mountpoint whose trend
\* is increasing and whose mean is above 60, and no other; the title of a
\* disk recommendation carries its mountpoint, so the recommendations of
\* distinct mountpoints are all in the result
C23_TrendRecommendations ==
    pc = "done" =>
        LET disk == analysis.disk
            titles == {CpuTrendTitle, RamTrendTitle}
                      \cup {DiskTrendTitle(disk[i][1]) : i \in 1..Len(disk)}
        IN  /\ OneIff(candidates, CpuTrendTitle,
                      Rising(analysis.cpu, analysis.cpu.usage, 50))
            /\ OneIff(candidates, RamTrendTitle,
                      Rising(analysis.memory.ram,
                             analysis.memory.ram.usage_percent, 60))
            /\ \A i \in 1..Len(disk) :
                   LET expected == Rising(disk[i][2], disk[i][2].usage_percent, 60)
                   IN  /\ OneIff(candidates, DiskTrendTitle(disk[i][1]), expected)
                       /\ OneIff(recommendations, DiskTrendTitle(disk[i][1]),
                                 expected)
            /\ \A k \in 1..Len(candidates) :
                   (Title(candidates[k]) # <<>>
                    /\ Title(candidates[k])[1] = "Increasing")
                   => Title(candidates[k]) \in titles

\* both mountpoints rise above 60 and both recommendations are in the
\* result, while the CPU rises with a mean of exactly 50 and gets none
C23_Witness ==
    /\ pc = "done"
    /\ Len(analysis.disk) = 2
    /\ \A i \in 1..2 :
           /\ Rising(analysis.disk[i][2], analysis.disk[i][2].usage_percent, 60)
           /\ Len(Titled(recommendations, DiskTrendTitle(analysis.disk[i][1]))) = 1
    /\ HasTrend(analysis.cpu)
    /\ analysis.cpu.trend = "increasing"
    /\ analysis.cpu.usage.mean = Num(50)
    /\ Titled(recommendations, CpuTrendTitle) = <<>>

-----------------------------------------------------------------------------
(* The recommendations drawn from the logs, under SpecRecommend *)

SecurityTitle == <<"Multiple", "Security", "Events", "Detected">>
AttentionTitle == <<"Kernel", "Errors", "Require", "Attention">>

\* C24: the logs give recommendations only when a log summary is provided,
\* and then exactly a security recommendation iff auth_log.security_events
\* is above 10 and a kernel recommendation, of priority critical, iff
\* kernel_log.error_count is above 5; counts of exactly 10 and 5 give nothing
C24_LogRecommendations ==
    pc = "done" =>
        LET provided == LogProvided(log_analysis)
            security == provided
                        /\ RatGt(LogCount(<<"auth_log", "security_events">>), Num(10))
            kernel == provided
                      /\ RatGt(LogCount(<<"kernel_log", "error_count">>), Num(5))
        IN  /\ OneIff(candidates, SecurityTitle, security)
            /\ OneIff(candidates, AttentionTitle, kernel)
            /\ OneIff(recommendations, SecurityTitle, security)
            /\ OneIff(recommendations, AttentionTitle, kernel)
            /\ kernel => Titled(candidates, AttentionTitle)[1].priority = "critical"
            /\ (violations = <<>> /\ analysis = QuietAnalysis) =>
                   Len(candidates) = (IF security THEN 1 ELSE 0)
                                     + (IF kernel THEN 1 ELSE 0)

\* 6 kernel errors and exactly 10 security events: the kernel recommendation
\* alone is returned
C24_Witness ==
    /\ pc = "done"
    /\ LogProvided(log_analysis)
    /\ LogCount(<<"kernel_log", "error_count">>) = Num(6)
    /\ LogCount(<<"auth_log", "security_events">>) = Num(10)
    /\ Len(recommendations) = 1
    /\ Title(recommendations[1]) = AttentionTitle

-----------------------------------------------------------------------------
(* Properties of the storage, under SpecCollect and SpecSave *)

\* the date a path was saved under
DateOfPath(p) == <<p[1], ParseInt(p[2]), ParseInt(p[3])>>

\* C25: no save_metrics or cleanup_old_data call removes a stored snapshot
\* younger than retention_months months; a month has at least 28 days, so a
\* snapshot less than 28 * retention_months days old, and with
\* retention_months >= 1 the one saved today, is younger than that
C25_CleanupKeepsYoungSnapshots ==
    [][ \A p \in DOMAIN files :
            (/\ Ordinal(DateOfPath(p)) <= Ordinal(clock)
             /\ Ordinal(clock) - Ordinal(DateOfPath(p)) < 28 * retention_months)
            => p \in DOMAIN files' ]_vars

-----------------------------------------------------------------------------
(* get_top_recommendations, under SpecRecommend *)

\* C26: get_top_recommendations(recommendations, n), n a number of
\* recommendations, returns the first min(n, length) elements of the sorted
\* list as they stand, and none of them ranks after one left out
C26_TopIsPrefix ==
    (pc = "top" /\ count >= 0) =>
        LET k == IF count < Len(recommendations) THEN count
                 ELSE Len(recommendations)
        IN  /\ Len(top_recommendations) = k
            /\ \A i \in 1..k : top_recommendations[i] = recommendations[i]
            /\ \A i \in 1..k : \A j \in (k + 1)..Len(recommendations) :
                   PriorityOrder(recommendations[i]) <= PriorityOrder(recommendations[j])

\* some recommendations are returned and others, of a lower priority, left out
C26_Witness ==
    /\ pc = "top"
    /\ count = DefaultCount
    /\ Len(recommendations) > count
    /\ Len(top_recommendations) = count
    /\ PriorityOrder(recommendations[1]) < PriorityOrder(recommendations[Len(recommendations)])

-----------------------------------------------------------------------------
(* The period of the analysis of a loaded month, under SpecSave *)

\* C27: for a non-empty snapshot list the period counts the snapshots and
\* runs from the timestamp of the first snapshot of the list to that of the
\* last, in the order given, sorted by date or not
C27_PeriodFromInputOrder ==
    (pc = "analyzed" /\ metrics_list # <<>>) =>
        /\ analysis.period.days_collected = Len(metrics_list)
        /\ analysis.period.start_date = metrics_list[1].timestamp
        /\ analysis.period.end_date = metrics_list[Len(metrics_list)].timestamp

\* the list analysed is out of order: its first snapshot is stamped later
\* than its last
C27_Witness ==
    /\ pc = "analyzed"
    /\ Len(metrics_list) = 2
    /\ Ordinal(metrics_list[1].timestamp) > Ordinal(metrics_list[2].timestamp)
    /\ analysis.period.start_date = metrics_list[1].timestamp
    /\ analysis.period.days_collected = 2

-----------------------------------------------------------------------------
(* From violations to recommendations, under SpecAdvise *)

\* the families of violations check_all_thresholds emits, each with the
\* first word of its metric labels and the title of its recommendation
Families ==
    { [label |-> <<"CPU">>, title |-> <<"High", "CPU", "Usage", "Detected">>],
      [label |-> <<"RAM">>, title |-> <<"High", "Memory", "Usage", "Detected">>],
      [label |-> <<"SWAP">>, title |-> <<"High", "SWAP", "Usage", "Detected">>],
      [label |-> <<"Disk">>, title |-> <<"High", "Disk", "Usage", "Detected">>],
      [label |-> <<"Total", "Log", "Errors">>,
       title |-> <<"High", "Error", "Count", "in", "Logs">>] }

\* violation v was emitted by the check of family f
OfFamily(v, f) == SubSeq(v.metric, 1, Len(f.label)) = f.label

\* C28: when a family has a critical violation, the one recommendation with
\* the family's title left after deduplication has priority high
C28_CriticalBreachIsHigh ==
    pc = "done" =>
        \A f \in Families :
            (\E i \in 1..Len(violations) :
                 OfFamily(violations[i], f) /\ violations[i].severity = "critical")
            => LET found == Titled(recommendations, f.title)
               IN  /\ Len(found) = 1
                   /\ found[1].priority = "high"

\* C29: every disk violation of check_all_thresholds, whatever its
\* mountpoint, adds a recommendation of category Disk titled
\* "High Disk Usage Detected"
C29_DiskViolationGetsDiskTemplate ==
    pc = "done" =>
        \A i \in 1..Len(violations) :
            (\E m \in MountNames : violations[i].metric = DiskLabel(m))
            => /\ i <= Len(candidates)
               /\ candidates[i].category = "Disk"
               /\ candidates[i].title = <<"High", "Disk", "Usage", "Detected">>

-----------------------------------------------------------------------------
(* Saving and loading a month, under SpecSave *)

\* the saves filed under the month asked for, by their position in saves
SavesOfMonth ==
    {i \in 1..Len(saves) : /\ saves[i].timestamp[1] = asked[1]
                           /\ saves[i].timestamp[2] = asked[2]}

\* the calendar days of that month on which a save occurred
SavedDays == {saves[i].timestamp[3] : i \in SavesOfMonth}

\* the most recent save of day d of that month
LastSaveOn(d) ==
    LET on == {i \in SavesOfMonth : saves[i].timestamp[3] = d}
    IN  CHOOSE i \in on : \A j \in on : j <= i

\* the save a loaded snapshot comes from: the n-th save holds reading n
SaveOf(snapshot) == snapshot.reading

\* C30: after any saves and no cleanup, load_month_metrics(year, month) returns
\* one snapshot for each day of that month on which a save occurred, the
\* most recently saved one of that day, in ascending order of the days, and
\* nothing of another month
C30_LoadReturnsLatestPerDay ==
    pc = "loaded" =>
        /\ Len(metrics_list) = Cardinality(SavedDays)
        /\ \A i \in 1..Len(metrics_list) :
               /\ SaveOf(metrics_list[i]) \in SavesOfMonth
               /\ SaveOf(metrics_list[i]) =
                      LastSaveOn(saves[SaveOf(metrics_list[i])].timestamp[3])
        /\ \A i \in 1..Len(metrics_list) : \A j \in (i + 1)..Len(metrics_list) :
               saves[SaveOf(metrics_list[i])].timestamp[3]
                   < saves[SaveOf(metrics_list[j])].timestamp[3]

\* the 10th was saved before the 9th, and the month is loaded with the 9th first
C30_Witness ==
    /\ pc = "loaded"
    /\ Len(saves) = 2
    /\ saves[1].timestamp = <<2026, 1, 10>>
    /\ saves[2].timestamp = <<2026, 1, 9>>
    /\ asked = <<2026, 1>>
    /\ Len(metrics_list) = 2
    /\ metrics_list[1].reading = 2

=============================================================================
